---- MODULE Spec2Model ----
(***************************************************************************)
(* Model of build_quotation_tool.py: file discovery (find_file), the       *)
(* catalog reader (read_product_sheet, parse_description), the route       *)
(* reader (read_freight), the tonnage matcher (read_tonnage), the Freight  *)
(* table written by build_tool, and the Quote-sheet formulas written by    *)
(* _build_quote_sheet and _write_result_row.                               *)
(*                                                                         *)
(* Text is a sequence of one-character strings, so that lower(), strip(),  *)
(* split(',') and the spreadsheet's & are computed character by character. *)
(* Numbers are exact rationals [n, d] in lowest terms with d > 0; the      *)
(* value None of a numeric cell is the pair with d = 0.                    *)
(***************************************************************************)
EXTENDS Integers, Sequences, FiniteSets, TLC

VARIABLES
    pc,                   \* position in the start-up code / main / read_tonnage
    matches,              \* find_file: number of candidates of each pattern (input)
    files,                \* the candidates chosen by the find_file calls so far
    price_wb,             \* rows 6.. of the price list's 'IN-GB' and 'SL-GB' (input)
    tonnage_sheet,        \* rows 3.. of the 'Tonnage' sheet (input)
    rate_sheet,           \* rows 2.. of the 'RATE SHEET' sheet (input)
    transit_sheet,        \* rows 2.. of the 'Transit Time' sheet (input)
    in_products,          \* read_product_sheet(price_wb, 'IN-GB')
    sl_products,          \* read_product_sheet(price_wb, 'SL-GB')
    freight,              \* route_map returned by read_freight
    freight_destinations, \* sorted destination list handed to read_tonnage
    row_idx,              \* read_tonnage pass 1: next sheet row (3-based)
    raw,                  \* read_tonnage: cleaned port name -> entry
    quality_issues,       \* read_tonnage: quality_issues list
    dest_idx,             \* read_tonnage pass 2: next destination (1-based)
    tonnage,              \* read_tonnage: destination -> (gross, confirmed)
    matched,              \* read_tonnage: matched list
    defaults,             \* read_tonnage: defaults list
    fr_rows,              \* rows 2.. of the workbook's 'Freight' sheet
    B                     \* Quote sheet input cells B4..B10 and B12

vars == <<pc, matches, files, price_wb, tonnage_sheet, rate_sheet, transit_sheet, in_products, sl_products, freight,
          freight_destinations, row_idx, raw, quality_issues, dest_idx,
          tonnage, matched, defaults, fr_rows, B>>

-----------------------------------------------------------------------------
(* Numbers *)

Num(n, d) == [n |-> n, d |-> d]
None == [n |-> 0, d |-> 0]
IsNone(x) == x.d = 0
Int2Num(i) == Num(i, 1)

NumLE(a, b) == a.n * b.d <= b.n * a.d
NumLT(a, b) == a.n * b.d < b.n * a.d
NumGT(a, b) == NumLT(b, a)

RECURSIVE GCD(_, _)
GCD(a, b) == IF b = 0 THEN a ELSE GCD(b, a % b)
Abs(i) == IF i < 0 THEN -i ELSE i

\* n/d in lowest terms, d > 0
NumNorm(n, d) ==
    LET g == GCD(Abs(n), Abs(d))
        sgn == IF d < 0 THEN -1 ELSE 1
    IN  Num(sgn * (n \div g), sgn * (d \div g))

NumMul(a, b) == NumNorm(a.n * b.n, a.d * b.d)
NumAdd(a, b) == NumNorm(a.n * b.d + b.n * a.d, a.d * b.d)
NumSub(a, b) == NumNorm(a.n * b.d - b.n * a.d, a.d * b.d)
\* a / b for b # 0
NumDiv(a, b) == NumNorm(a.n * b.d, a.d * b.n)

\* round(x, 2): to the nearest hundredth, a tie going to the even hundredth
Round2(x) ==
    LET q == (100 * x.n) \div x.d
        r == (100 * x.n) - q * x.d
        up == 2 * r > x.d \/ (2 * r = x.d /\ q % 2 = 1)
    IN  NumNorm(IF up THEN q + 1 ELSE q, 100)

\* f[k] = v on a dict
MapPut(f, k, v) == [x \in (DOMAIN f) \cup {k} |-> IF x = k THEN v ELSE f[x]]
EmptyMap == [x \in {} |-> 0]

-----------------------------------------------------------------------------
(* Text *)

UpperChars == <<"A", "B", "C", "D", "E", "F", "G", "H", "I", "J", "K", "L", "M",
                "N", "O", "P", "Q", "R", "S", "T", "U", "V", "W", "X", "Y", "Z">>
LowerChars == <<"a", "b", "c", "d", "e", "f", "g", "h", "i", "j", "k", "l", "m",
                "n", "o", "p", "q", "r", "s", "t", "u", "v", "w", "x", "y", "z">>

\* str.lower() on one character
LowerChar(c) ==
    IF \E i \in 1..26 : UpperChars[i] = c
    THEN LowerChars[CHOOSE i \in 1..26 : UpperChars[i] = c]
    ELSE c

\* str.lower()
Lower(s) == [i \in 1..Len(s) |-> LowerChar(s[i])]

RECURSIVE LStrip(_)
LStrip(s) == IF s # <<>> /\ Head(s) = " " THEN LStrip(Tail(s)) ELSE s

RECURSIVE RStrip(_)
\* str.rstrip()
RStrip(s) ==
    IF s # <<>> /\ s[Len(s)] = " " THEN RStrip(SubSeq(s, 1, Len(s) - 1)) ELSE s

\* str.strip()
Strip(s) == LStrip(RStrip(s))

RECURSIVE SplitCommaFirst(_)
\* s.split(',')[0]
SplitCommaFirst(s) ==
    IF s = <<>> \/ Head(s) = "," THEN <<>>
    ELSE <<Head(s)>> \o SplitCommaFirst(Tail(s))

\* substring test:  sub in s
Contains(s, sub) ==
    \E i \in 1..(Len(s) - Len(sub) + 1) : SubSeq(s, i, i + Len(sub) - 1) = sub

\* the characters of the model's texts in code-point order (Python compares
\* str by code point)
CharOrder ==
    <<" ", "(", "*", ",", "-", ".", "/", "0", "1", "2", "3", "4", "5", "6", "7", "8", "9">>
    \o UpperChars \o LowerChars \o <<"|">>

Ord(c) == CHOOSE i \in 1..Len(CharOrder) : CharOrder[i] = c

RECURSIVE StrLT(_, _)
\* a < b on str
StrLT(a, b) ==
    IF b = <<>> THEN FALSE
    ELSE IF a = <<>> THEN TRUE
    ELSE IF Head(a) = Head(b) THEN StrLT(Tail(a), Tail(b))
    ELSE Ord(Head(a)) < Ord(Head(b))

Digits == <<"0", "1", "2", "3", "4", "5", "6", "7", "8", "9">>
IsDigit(c) == \E i \in 1..10 : Digits[i] = c
DigitVal(c) == (CHOOSE i \in 1..10 : Digits[i] = c) - 1


RECURSIVE DigitRun(_, _)
\* int() of the digits at the head of s, continuing the value acc
DigitRun(s, acc) ==
    IF s = <<>> \/ ~IsDigit(Head(s)) THEN acc
    ELSE DigitRun(Tail(s), 10 * acc + DigitVal(Head(s)))

\* str.upper() on one character
UpperChar(c) ==
    IF \E i \in 1..26 : LowerChars[i] = c
    THEN UpperChars[CHOOSE i \in 1..26 : LowerChars[i] = c]
    ELSE c

\* str.upper()
Upper(s) == [i \in 1..Len(s) |-> UpperChar(s[i])]

\* str.isdigit()
IsDigitStr(s) == s # <<>> /\ \A i \in 1..Len(s) : IsDigit(s[i])

-----------------------------------------------------------------------------
(* Regular expressions of parse_description *)

\* the character at position i; no character outside the text
At(s, i) == IF i \in 1..Len(s) THEN s[i] ELSE ""

\* \w
IsWordChar(c) ==
    \/ IsDigit(c)
    \/ c = "_"
    \/ \E i \in 1..26 : UpperChars[i] = c \/ LowerChars[i] = c

\* \b at the gap before position i
WordBoundary(s, i) == IsWordChar(At(s, i - 1)) # IsWordChar(At(s, i))

RECURSIVE SkipDigits(_, _)
\* \d* from position i: the first position at or after i that holds no digit
SkipDigits(s, i) == IF IsDigit(At(s, i)) THEN SkipDigits(s, i + 1) ELSE i

RECURSIVE SkipSpaces(_, _)
\* \s* from position i
SkipSpaces(s, i) == IF At(s, i) = " " THEN SkipSpaces(s, i + 1) ELSE i

\* the literal lit at position i
LitAt(s, i, lit) ==
    i + Len(lit) - 1 <= Len(s) /\ SubSeq(s, i, i + Len(lit) - 1) = lit

\* the literal lit at position i under re.IGNORECASE
LitAtI(s, i, lit) ==
    i + Len(lit) - 1 <= Len(s) /\ Upper(SubSeq(s, i, i + Len(lit) - 1)) = Upper(lit)

\* re.search: the leftmost position of S, 0 when there is none
Leftmost(S) == IF S = {} THEN 0 ELSE CHOOSE i \in S : \A j \in S : i <= j

-----------------------------------------------------------------------------
(* parse_description *)

s_X == <<"X">>
s_PLF == <<"P", "L", "F">>
s_PRO == <<"P", "R", "O">>
s_MM == <<"M", "M">>
s_NO == <<"N", "O">>
s_HOLES == <<"H", "O", "L", "E", "S">>
s_NO_HOLES == <<"N", "O", " ", "H", "O", "L", "E", "S">>
s_BSU == <<"B", "S", "U">>
s_NA == <<"N", "/", "A">>
EC_LEVELS == { <<"N", "W">>, <<"W", "A">>, <<"E", "W">>, <<"T", "R">>, <<"F", "T">> }

\* (\d+)\s*[xX]\s*(\d+)\s*[xX]\s*(\d+) matched at position i: the text
\* group1 X group2 X group3, or the empty text for no match at i
SizeAt(d, i) ==
    LET e1 == SkipDigits(d, i)
        x1 == SkipSpaces(d, e1)
        b2 == SkipSpaces(d, x1 + 1)
        e2 == SkipDigits(d, b2)
        x2 == SkipSpaces(d, e2)
        b3 == SkipSpaces(d, x2 + 1)
        e3 == SkipDigits(d, b3)
    IN  IF /\ e1 > i
           /\ UpperChar(At(d, x1)) = "X"
           /\ e2 > b2
           /\ UpperChar(At(d, x2)) = "X"
           /\ e3 > b3
        THEN SubSeq(d, i, e1 - 1) \o s_X \o SubSeq(d, b2, e2 - 1) \o s_X
             \o SubSeq(d, b3, e3 - 1)
        ELSE <<>>

\* (PLF\s*\d+|PRO\s*\d+|\d+mm) under re.IGNORECASE matched at position i, after
\* upper() and the spacing normalisation of re.sub; empty for no match at i
ChipsAt(d, i) ==
    IF LitAtI(d, i, s_PLF) \/ LitAtI(d, i, s_PRO)
    THEN LET b == SkipSpaces(d, i + 3)
             e == SkipDigits(d, b)
         IN  IF e > b
             THEN Upper(SubSeq(d, i, i + 2)) \o <<" ">> \o SubSeq(d, b, e - 1)
             ELSE <<>>
    ELSE LET e == SkipDigits(d, i)
         IN  IF e > i /\ LitAtI(d, e, s_MM)
             THEN SubSeq(d, i, e - 1) \o s_MM
             ELSE <<>>

\* \b(NW|WA|EW|TR|FT)\b matched at position i
EcAt(d, i) ==
    IF /\ WordBoundary(d, i)
       /\ WordBoundary(d, i + 2)
       /\ \E c \in EC_LEVELS : LitAt(d, i, c)
    THEN SubSeq(d, i, i + 1)
    ELSE <<>>

\* (P\d+Y) under re.IGNORECASE matched at position i, after upper()
PlasticAt(d, i) ==
    LET e == SkipDigits(d, i + 1)
    IN  IF UpperChar(At(d, i)) = "P" /\ e > i + 1 /\ UpperChar(At(d, e)) = "Y"
        THEN <<"P">> \o SubSeq(d, i + 1, e - 1) \o <<"Y">>
        ELSE <<>>

\* re.search(r'\bNO\s*HOLES\b', d, re.IGNORECASE)
HasNoHoles(d) ==
    \E i \in 1..Len(d) :
        /\ WordBoundary(d, i)
        /\ LitAtI(d, i, s_NO)
        /\ LET b == SkipSpaces(d, i + 2)
           IN  LitAtI(d, b, s_HOLES) /\ WordBoundary(d, b + 5)

\* re.search(r'HOLES', d, re.IGNORECASE)
HasHoles(d) == \E i \in 1..Len(d) : LitAtI(d, i, s_HOLES)

\* re.search(r'\bBSU\b', d, re.IGNORECASE)
HasBsu(d) ==
    \E i \in 1..Len(d) :
        WordBoundary(d, i) /\ LitAtI(d, i, s_BSU) /\ WordBoundary(d, i + 3)

\* the field found by the leftmost match of a pattern, '' when none matches;
\* found[j] is what the pattern matches at position j
FirstField(found) ==
    LET i == Leftmost({j \in DOMAIN found : found[j] # <<>>})
    IN  IF i = 0 THEN <<>> ELSE found[i]

\* parse_description with the two tests for holes in the other order
parse_description_holes_first(d) ==
    [size |-> FirstField([j \in 1..Len(d) |-> SizeAt(d, j)]),
     chips_pith |-> FirstField([j \in 1..Len(d) |-> ChipsAt(d, j)]),
     ec_level |-> FirstField([j \in 1..Len(d) |-> EcAt(d, j)]),
     plastic |-> FirstField([j \in 1..Len(d) |-> PlasticAt(d, j)]),
     holes |-> IF HasHoles(d) THEN s_HOLES
               ELSE IF HasNoHoles(d) THEN s_NO_HOLES ELSE s_NA,
     bsu |-> IF HasBsu(d) THEN s_BSU ELSE s_NA]

\* parse_description(desc) for a non-empty desc
parse_description(d) ==
    [size |-> FirstField([j \in 1..Len(d) |-> SizeAt(d, j)]),
     chips_pith |-> FirstField([j \in 1..Len(d) |-> ChipsAt(d, j)]),
     ec_level |-> FirstField([j \in 1..Len(d) |-> EcAt(d, j)]),
     plastic |-> FirstField([j \in 1..Len(d) |-> PlasticAt(d, j)]),
     holes |-> IF HasNoHoles(d) THEN s_NO_HOLES
               ELSE IF HasHoles(d) THEN s_HOLES ELSE s_NA,
     bsu |-> IF HasBsu(d) THEN s_BSU ELSE s_NA]

-----------------------------------------------------------------------------
(* find_file and the start-up code that calls it *)

\* the glob patterns of the three find_file calls, in call order
Patterns == <<"Valid from*.xlsx", "Freight*.xlsx", "Price List*.xlsx">>

\* where the start-up code continues once the find_file calls in chosen have
\* returned: with the next call, or with main
AfterFindFile(chosen) ==
    IF Len(chosen) = Len(Patterns) THEN "read_price_list" ELSE "find_file"

\* find_file without the sys.exit of its last branch: with no candidate the
\* call returns nothing and the start-up code goes on
FindFile_no_exit ==
    /\ pc = "find_file"
    /\ LET n == matches[Len(files) + 1] IN
          IF n > 1
          THEN pc' = "select_file" /\ UNCHANGED files
          ELSE files' = Append(files, n) /\ pc' = AfterFindFile(files')
    /\ UNCHANGED <<matches, price_wb, tonnage_sheet, rate_sheet, transit_sheet,
                   in_products, sl_products, freight, freight_destinations, row_idx,
                   raw, quality_issues, dest_idx, tonnage, matched, defaults,
                   fr_rows, B>>

\* find_file up to its return, its prompt or its exit: one candidate is
\* returned, several are listed, none is reported and ends the process
FindFile ==
    /\ pc = "find_file"
    /\ LET n == matches[Len(files) + 1] IN
          IF n = 1
          THEN files' = Append(files, 1) /\ pc' = AfterFindFile(files')
          ELSE IF n > 1
          THEN pc' = "select_file" /\ UNCHANGED files
          ELSE pc' = "exit" /\ UNCHANGED files
    /\ UNCHANGED <<matches, price_wb, tonnage_sheet, rate_sheet, transit_sheet,
                   in_products, sl_products, freight, freight_destinations, row_idx,
                   raw, quality_issues, dest_idx, tonnage, matched, defaults,
                   fr_rows, B>>

\* what the user may type at the prompt
KeyboardInputs ==
    { <<>>, <<"0">>, <<"1">>, <<"2">>, <<" ", "2", " ">>, <<"3">>, <<"x">> }

\* find_file: one round of the selection loop; an answer that is no number of
\* the list is asked again
SelectFile ==
    /\ pc = "select_file"
    /\ \E typed \in KeyboardInputs :
          LET choice == Strip(typed)
              n == matches[Len(files) + 1]
          IN  IF IsDigitStr(choice) /\ 1 <= DigitRun(choice, 0) /\ DigitRun(choice, 0) <= n
              THEN files' = Append(files, DigitRun(choice, 0))
                   /\ pc' = AfterFindFile(files')
              ELSE UNCHANGED <<pc, files>>
    /\ UNCHANGED <<matches, price_wb, tonnage_sheet, rate_sheet, transit_sheet,
                   in_products, sl_products, freight, freight_destinations, row_idx,
                   raw, quality_issues, dest_idx, tonnage, matched, defaults,
                   fr_rows, B>>

-----------------------------------------------------------------------------
(* read_freight *)

RECURSIVE ReadRates_raw_compare(_, _)
\* ReadRates with origin and destination compared as the cells hold them
ReadRates_raw_compare(rows, rates) ==
    IF rows = <<>> THEN rates
    ELSE LET row == Head(rows)
             origin == Strip(row.origin)
             dest == Strip(row.dest)
         IN  IF row.origin = <<>> \/ row.dest = <<>> \/ IsNone(row.all_in)
             THEN ReadRates_raw_compare(Tail(rows), rates)
             ELSE IF row.origin = row.dest
             THEN ReadRates_raw_compare(Tail(rows), rates)
             ELSE ReadRates_raw_compare(Tail(rows), MapPut(rates, <<origin, dest>>, row.all_in))

\* rates after the loop over the RATE SHEET rows
RECURSIVE ReadRates(_, _)
ReadRates(rows, rates) ==
    IF rows = <<>> THEN rates
    ELSE LET row == Head(rows)
             origin == Strip(row.origin)
             dest == Strip(row.dest)
         IN  IF row.origin = <<>> \/ row.dest = <<>> \/ IsNone(row.all_in)
             THEN ReadRates(Tail(rows), rates)
             ELSE IF origin = dest
             THEN ReadRates(Tail(rows), rates)
             ELSE ReadRates(Tail(rows), MapPut(rates, <<origin, dest>>, row.all_in))

RECURSIVE FirstInt(_)
\* re.search(r'(\d+)', s): the first integer in s, or -1 for no match
FirstInt(s) ==
    IF s = <<>> THEN -1
    ELSE IF IsDigit(Head(s)) THEN DigitRun(s, 0)
    ELSE FirstInt(Tail(s))

RECURSIVE ReadTransit_last_wins(_, _)
\* ReadTransit without the test for a pair that is already known
ReadTransit_last_wins(rows, transit) ==
    IF rows = <<>> THEN transit
    ELSE LET row == Head(rows)
             key == <<Strip(row.receipt), Strip(row.delivery)>>
         IN  IF row.receipt = <<>> \/ row.delivery = <<>> \/ row.tt = <<>>
             THEN ReadTransit_last_wins(Tail(rows), transit)
             ELSE IF FirstInt(row.tt) >= 0
             THEN ReadTransit_last_wins(Tail(rows), MapPut(transit, key, FirstInt(row.tt)))
             ELSE ReadTransit_last_wins(Tail(rows), transit)

\* transit after the loop over the Transit Time rows
RECURSIVE ReadTransit(_, _)
ReadTransit(rows, transit) ==
    IF rows = <<>> THEN transit
    ELSE LET row == Head(rows)
             key == <<Strip(row.receipt), Strip(row.delivery)>>
         IN  IF row.receipt = <<>> \/ row.delivery = <<>> \/ row.tt = <<>>
             THEN ReadTransit(Tail(rows), transit)
             ELSE IF key \notin DOMAIN transit /\ FirstInt(row.tt) >= 0
             THEN ReadTransit(Tail(rows), MapPut(transit, key, FirstInt(row.tt)))
             ELSE ReadTransit(Tail(rows), transit)

s_India == <<"I", "n", "d", "i", "a">>
s_Sri_Lanka == <<"S", "r", "i", " ", "L", "a", "n", "k", "a">>

Country(origin) ==
    IF Contains(origin, <<",", " ", "I", "N">>) THEN s_India
    ELSE IF Contains(origin, <<",", " ", "L", "K">>) THEN s_Sri_Lanka
    ELSE origin

\* the route_map returned by read_freight
RouteMap(rates, transit) ==
    [k \in DOMAIN rates |->
        [origin |-> k[1],
         country |-> Country(k[1]),
         destination |-> k[2],
         transit_days |-> IF k \in DOMAIN transit THEN transit[k] ELSE 0,
         all_in_usd |-> Round2(rates[k])]]

\* main: freight = read_freight(RATE_FILE)
ReadFreight ==
    /\ pc = "read_freight"
    /\ freight' = RouteMap(ReadRates(rate_sheet, EmptyMap),
                           ReadTransit(transit_sheet, EmptyMap))
    /\ pc' = "sort_destinations"
    /\ UNCHANGED <<matches, files, price_wb, tonnage_sheet, rate_sheet, transit_sheet, in_products, sl_products,
                   freight_destinations, row_idx, raw, quality_issues, dest_idx,
                   tonnage, matched, defaults, fr_rows, B>>

RECURSIVE SortedStrs(_)
\* sorted(S) for a set S of str
SortedStrs(S) ==
    IF S = {} THEN <<>>
    ELSE LET m == CHOOSE x \in S : \A y \in S \ {x} : StrLT(x, y)
         IN  <<m>> \o SortedStrs(S \ {m})

\* CallReadTonnage handing read_tonnage the destinations of the Indian routes
\* only
CallReadTonnage_india_only ==
    /\ pc = "sort_destinations"
    /\ freight_destinations' =
            SortedStrs({freight[k].destination :
                           k \in {q \in DOMAIN freight : freight[q].country = s_India}})
    /\ row_idx' = 3
    /\ dest_idx' = 1
    /\ raw' = EmptyMap
    /\ tonnage' = EmptyMap
    /\ quality_issues' = <<>>
    /\ matched' = <<>>
    /\ defaults' = <<>>
    /\ pc' = "read_tonnage"
    /\ UNCHANGED <<matches, files, price_wb, tonnage_sheet, rate_sheet, transit_sheet, in_products, sl_products,
                   freight, fr_rows, B>>

\* main: freight_destinations = sorted({v['destination'] ...}); read_tonnage is
\* entered with its empty raw, quality_issues, tonnage, matched and defaults
CallReadTonnage ==
    /\ pc = "sort_destinations"
    /\ freight_destinations' =
            SortedStrs({freight[k].destination : k \in DOMAIN freight})
    /\ row_idx' = 3
    /\ dest_idx' = 1
    /\ raw' = EmptyMap
    /\ tonnage' = EmptyMap
    /\ quality_issues' = <<>>
    /\ matched' = <<>>
    /\ defaults' = <<>>
    /\ pc' = "read_tonnage"
    /\ UNCHANGED <<matches, files, price_wb, tonnage_sheet, rate_sheet, transit_sheet, in_products, sl_products,
                   freight, fr_rows, B>>

-----------------------------------------------------------------------------
(* read_tonnage: literals *)

CT_40HC == <<"4", "0", "H", "C">>

s_germany == <<"g", "e", "r", "m", "a", "n", "y">>
s_hamburg == <<"h", "a", "m", "b", "u", "r", "g">>
s_Hamburg == <<"H", "a", "m", "b", "u", "r", "g">>

known_misspellings ==
    { <<"y", "o", "k", "o", "h", "o", "m", "a">>,
      <<"l", "i", "s", "b", "a", "o">>,
      <<"l", "e", " ", "h", "a", "r", "v", "e">> }

k_london_gateway_gb ==
    <<"l", "o", "n", "d", "o", "n", " ", "g", "a", "t", "e", "w", "a", "y", ",", " ", "g", "b">>
k_las_palmas_es ==
    <<"l", "a", "s", " ", "p", "a", "l", "m", "a", "s", " ", "d", "e", " ", "g", "r", "a", "n",
      " ", "c", "a", "n", "a", "r", "i", "a", ",", " ", "e", "s">>
k_lisbon_pt == <<"l", "i", "s", "b", "o", "n", ",", " ", "p", "t">>
k_guayaquil_ec ==
    <<"g", "u", "a", "y", "a", "q", "u", "i", "l", "-", "p", "o", "s", "o", "r", "j", "a", ",",
      " ", "e", "c">>
k_cartagena_es == <<"c", "a", "r", "t", "a", "g", "e", "n", "a", ",", " ", "e", "s">>
k_cartagena_co == <<"c", "a", "r", "t", "a", "g", "e", "n", "a", ",", " ", "c", "o">>

OverrideKeys ==
    {k_london_gateway_gb, k_las_palmas_es, k_lisbon_pt, k_guayaquil_ec, k_cartagena_es}

\* OVERRIDES: freight_dest_lower -> tonnage_key
OVERRIDES ==
    [k \in OverrideKeys |->
        CASE k = k_london_gateway_gb ->
                <<"l", "o", "n", "d", "o", "n", " ", "g", "a", "t", "e", "w", "a", "y", " ",
                  "t", "e", "r", "m", "i", "n", "a", "l">>
          [] k = k_las_palmas_es -> <<"l", "a", "s", " ", "p", "a", "l", "m", "a", "s">>
          [] k = k_lisbon_pt -> <<"l", "i", "s", "b", "a", "o">>
          [] k = k_guayaquil_ec -> <<"g", "u", "a", "y", "a", "q", "u", "i", "l">>
          [] k = k_cartagena_es -> <<"c", "a", "r", "t", "a", "g", "e", "n", "a">>]

\* SKIP_MATCHES naming the Spanish port instead of the Colombian one
SKIP_MATCHES_spain == {k_cartagena_es}

SKIP_MATCHES == {k_cartagena_co}

\* a policy default of 22 MT
DefaultWeight_22 == Num(22, 1)

\* the policy default (23, False) of read_tonnage and build_tool
DefaultWeight == Num(23, 1)

-----------------------------------------------------------------------------
(* read_tonnage, step 1: read all 40HC entries, deduplicate *)

\* ws.max_row of the Tonnage sheet (rows 1-2 are headers)
MaxRow == IF tonnage_sheet = <<>> THEN 1 ELSE Len(tonnage_sheet) + 2

SheetRow(r) == tonnage_sheet[r - 2]

\* ctype = str(cell or '').strip();  the row is read when port and ctype == '40HC'
IsRead(row) == row.port # <<>> /\ Strip(row.ctype) = CT_40HC

CountryStr(row) == Strip(row.country)

IsSwapped(row) ==
    Lower(Strip(row.port)) = s_germany /\ Lower(CountryStr(row)) = s_hamburg

\* PortStr without the correction of the swapped row
PortStr_no_swap(row) == Strip(row.port)

\* port_str after the swapped port/country correction
PortStr(row) == IF IsSwapped(row) THEN s_Hamburg ELSE Strip(row.port)

\* the issues appended for a row before its weight is looked at
DefectIssues(row, r) ==
    LET port_str == PortStr(row) IN
    (IF IsSwapped(row)
        THEN <<[kind |-> "swapped", row |-> r, name |-> Strip(row.port)]>> ELSE <<>>)
    \o (IF RStrip(row.port) # row.port
        THEN <<[kind |-> "trailing", row |-> r, name |-> row.port]>> ELSE <<>>)
    \o (IF Lower(port_str) \in known_misspellings
        THEN <<[kind |-> "misspelling", row |-> r, name |-> port_str]>> ELSE <<>>)
    \o (IF Contains(port_str, <<"*", "*">>) \/ Contains(port_str, <<"(">>)
        THEN <<[kind |-> "annotation", row |-> r, name |-> port_str]>> ELSE <<>>)

\* raw[key] = value
RawPut(key, value) == MapPut(raw, key, value)

\* HigherWeight with the comparison reversed
HigherWeight_reversed(gross_val, kept) == NumLT(gross_val, kept)

\* gross_val > raw[key][0]: the later row replaces the retained one
HigherWeight(gross_val, kept) == NumGT(gross_val, kept)

\* ReadTonnageRow without the check for a missing gross weight: the empty cell
\* is stored as the weight 0
ReadTonnageRow_no_weight_check ==
    /\ pc = "read_tonnage"
    /\ row_idx <= MaxRow
    /\ LET row == SheetRow(row_idx)
           port_str == PortStr(row)
           key == Lower(port_str)
           gross_val == IF IsNone(row.gross) THEN Int2Num(0) ELSE row.gross
           entry == [gross |-> gross_val, name |-> port_str, row |-> row_idx]
       IN  IF ~IsRead(row)
           THEN UNCHANGED <<raw, quality_issues>>
           ELSE IF key \in DOMAIN raw
           THEN IF HigherWeight(gross_val, raw[key].gross)
                THEN /\ quality_issues' = quality_issues \o DefectIssues(row, row_idx)
                           \o <<[kind |-> "keeping", row |-> row_idx, name |-> port_str]>>
                     /\ raw' = RawPut(key, entry)
                ELSE /\ quality_issues' = quality_issues \o DefectIssues(row, row_idx)
                           \o <<[kind |-> "skipping", row |-> row_idx, name |-> port_str]>>
                     /\ UNCHANGED raw
           ELSE /\ quality_issues' = quality_issues \o DefectIssues(row, row_idx)
                /\ raw' = RawPut(key, entry)
    /\ row_idx' = row_idx + 1
    /\ UNCHANGED <<pc, matches, files, price_wb, tonnage_sheet, rate_sheet, transit_sheet, in_products, sl_products, freight,
                   freight_destinations, dest_idx, tonnage, matched, defaults,
                   fr_rows, B>>

\* one iteration of the loop over the sheet rows
ReadTonnageRow ==
    /\ pc = "read_tonnage"
    /\ row_idx <= MaxRow
    /\ LET row == SheetRow(row_idx)
           port_str == PortStr(row)
           key == Lower(port_str)
           gross_val == row.gross      \* float(gross): the value is kept
           entry == [gross |-> gross_val, name |-> port_str, row |-> row_idx]
       IN  IF ~IsRead(row)
           THEN UNCHANGED <<raw, quality_issues>>
           ELSE IF IsNone(row.gross)
           THEN /\ quality_issues' = quality_issues \o DefectIssues(row, row_idx)
                      \o <<[kind |-> "missing", row |-> row_idx, name |-> port_str]>>
                /\ UNCHANGED raw
           ELSE IF key \in DOMAIN raw
           THEN IF HigherWeight(gross_val, raw[key].gross)
                THEN /\ quality_issues' = quality_issues \o DefectIssues(row, row_idx)
                           \o <<[kind |-> "keeping", row |-> row_idx, name |-> port_str]>>
                     /\ raw' = RawPut(key, entry)
                ELSE /\ quality_issues' = quality_issues \o DefectIssues(row, row_idx)
                           \o <<[kind |-> "skipping", row |-> row_idx, name |-> port_str]>>
                     /\ UNCHANGED raw
           ELSE /\ quality_issues' = quality_issues \o DefectIssues(row, row_idx)
                /\ raw' = RawPut(key, entry)
    /\ row_idx' = row_idx + 1
    /\ UNCHANGED <<pc, matches, files, price_wb, tonnage_sheet, rate_sheet, transit_sheet, in_products, sl_products, freight,
                   freight_destinations, dest_idx, tonnage, matched, defaults,
                   fr_rows, B>>

-----------------------------------------------------------------------------
(* read_tonnage, step 2: match tonnage ports to freight destinations *)

\* city = dest.split(',')[0].strip().lower()
CityToken(dest) == Lower(Strip(SplitCommaFirst(dest)))

\* tonnage_key after the override lookup and the city fallback; <<>> is None
TonnageKey(dest) ==
    LET dest_lower == Lower(dest) IN
    IF dest_lower \in DOMAIN OVERRIDES THEN OVERRIDES[dest_lower]
    ELSE IF CityToken(dest) \in DOMAIN raw THEN CityToken(dest)
    ELSE <<>>

\* TonnagePut storing under the lowercased destination
TonnagePut_lowered(dest, value) == MapPut(tonnage, Lower(dest), value)

\* tonnage[dest] = value
TonnagePut(dest, value) == MapPut(tonnage, dest, value)

IsSkipped(dest) == Lower(dest) \in SKIP_MATCHES

\* if tonnage_key and tonnage_key in raw
IsMatched(dest) ==
    /\ ~IsSkipped(dest)
    /\ TonnageKey(dest) # <<>>
    /\ TonnageKey(dest) \in DOMAIN raw

\* Resolution with the unmatched default stored as confirmed
Resolution_default_confirmed(dest) ==
    IF IsSkipped(dest) THEN [gross |-> DefaultWeight, confirmed |-> FALSE]
    ELSE IF IsMatched(dest)
    THEN [gross |-> raw[TonnageKey(dest)].gross, confirmed |-> TRUE]
    ELSE [gross |-> DefaultWeight, confirmed |-> TRUE]

\* the pair stored in tonnage[dest]
Resolution(dest) ==
    IF IsSkipped(dest) THEN [gross |-> DefaultWeight, confirmed |-> FALSE]
    ELSE IF IsMatched(dest)
    THEN [gross |-> raw[TonnageKey(dest)].gross, confirmed |-> TRUE]
    ELSE [gross |-> DefaultWeight, confirmed |-> FALSE]

\* one iteration of the loop over freight_destinations
MatchDestination ==
    /\ pc = "read_tonnage"
    /\ row_idx > MaxRow
    /\ dest_idx <= Len(freight_destinations)
    /\ LET dest == freight_destinations[dest_idx]
       IN  /\ tonnage' = TonnagePut(dest, Resolution(dest))
           /\ IF IsSkipped(dest)
              THEN /\ quality_issues' = quality_issues
                         \o <<[kind |-> "not matched", row |-> 0, name |-> dest]>>
                   /\ defaults' = Append(defaults, dest)
                   /\ UNCHANGED matched
              ELSE IF IsMatched(dest)
              THEN /\ matched' = Append(matched, [dest |-> dest,
                                                  name |-> raw[TonnageKey(dest)].name,
                                                  gross |-> raw[TonnageKey(dest)].gross])
                   /\ UNCHANGED <<defaults, quality_issues>>
              ELSE /\ defaults' = Append(defaults, dest)
                   /\ UNCHANGED <<matched, quality_issues>>
    /\ dest_idx' = dest_idx + 1
    /\ UNCHANGED <<pc, matches, files, price_wb, tonnage_sheet, rate_sheet, transit_sheet, in_products,
                   sl_products, freight, freight_destinations, row_idx, raw, fr_rows, B>>

\* the report dict and the return to main
ReadTonnageReturn ==
    /\ pc = "read_tonnage"
    /\ row_idx > MaxRow
    /\ dest_idx > Len(freight_destinations)
    /\ pc' = "build_tool"
    /\ UNCHANGED <<matches, files, price_wb, tonnage_sheet, rate_sheet, transit_sheet, in_products, sl_products, freight,
                   freight_destinations, row_idx, raw, quality_issues, dest_idx,
                   tonnage, matched, defaults, fr_rows, B>>

-----------------------------------------------------------------------------
(* make_key, read_product_sheet *)

\* make_key
make_key(parsed) ==
    parsed.size \o <<"|">> \o parsed.chips_pith \o <<"|">> \o parsed.ec_level \o <<"|">>
    \o parsed.plastic \o <<"|">> \o parsed.holes \o <<"|">> \o parsed.bsu

\* the product record appended by read_product_sheet
Product(prod_no, desc, parsed, pcs, fob) ==
    [key |-> make_key(parsed), product_no |-> prod_no, description |-> desc,
     size |-> parsed.size, chips_pith |-> parsed.chips_pith,
     ec_level |-> parsed.ec_level, plastic |-> parsed.plastic,
     holes |-> parsed.holes, bsu |-> parsed.bsu, pcs |-> pcs, fob |-> fob]

RECURSIVE read_product_sheet(_)
\* read_product_sheet on the rows of one sheet: a row without a product number
\* or a description is skipped, every other row appends one product, in row
\* order (parse_description returns a dict for every non-empty description)
read_product_sheet(rows) ==
    IF rows = <<>> THEN <<>>
    ELSE LET row == Head(rows)
         IN  IF row.prod_no = <<>> \/ row.desc = <<>>
             THEN read_product_sheet(Tail(rows))
             ELSE <<Product(row.prod_no, row.desc, parse_description(row.desc),
                            row.pcs, row.fob)>>
                  \o read_product_sheet(Tail(rows))

\* main: the price list is loaded and both product sheets are read
ReadPriceList ==
    /\ pc = "read_price_list"
    /\ in_products' = read_product_sheet(price_wb.IN_GB)
    /\ sl_products' = read_product_sheet(price_wb.SL_GB)
    /\ pc' = "read_freight"
    /\ UNCHANGED <<matches, files, price_wb, tonnage_sheet, rate_sheet, transit_sheet,
                   freight, freight_destinations, row_idx, raw, quality_issues,
                   dest_idx, tonnage, matched, defaults, fr_rows, B>>

-----------------------------------------------------------------------------
(* build_tool: the Freight sheet and the dropdown lists *)

\* sort key (x['origin'], x['destination'])
RouteLT(a, b) ==
    \/ StrLT(a.origin, b.origin)
    \/ a.origin = b.origin /\ StrLT(a.destination, b.destination)

RECURSIVE SortedRoutes(_)
\* sorted(freight.values(), key=...)
SortedRoutes(S) ==
    IF S = {} THEN <<>>
    ELSE LET m == CHOOSE x \in S : \A y \in S \ {x} : RouteLT(x, y)
         IN  <<m>> \o SortedRoutes(S \ {m})

\* tonnage.get(dest, (23, False))
TonnageGet(dest) ==
    IF dest \in DOMAIN tonnage THEN tonnage[dest]
    ELSE [gross |-> DefaultWeight, confirmed |-> FALSE]

\* FreightRow with the tonnage looked up for the Indian origins only
FreightRow_IndiaOnly(fr) ==
    LET t == IF fr.country = s_India THEN TonnageGet(fr.destination)
             ELSE [gross |-> DefaultWeight, confirmed |-> FALSE]
    IN  [key |-> fr.origin \o <<"|">> \o fr.destination,
         country |-> fr.country,
         origin |-> fr.origin,
         destination |-> fr.destination,
         transit_days |-> fr.transit_days,
         all_in_usd |-> fr.all_in_usd,
         gross_wt |-> t.gross,
         confirmed |-> IF t.confirmed THEN 1 ELSE 0]

\* columns A..H of one Freight row
FreightRow(fr) ==
    [key |-> fr.origin \o <<"|">> \o fr.destination,
     country |-> fr.country,
     origin |-> fr.origin,
     destination |-> fr.destination,
     transit_days |-> fr.transit_days,
     all_in_usd |-> fr.all_in_usd,
     gross_wt |-> TonnageGet(fr.destination).gross,
     confirmed |-> IF TonnageGet(fr.destination).confirmed THEN 1 ELSE 0]

FreightRows ==
    LET sorted == SortedRoutes({freight[k] : k \in DOMAIN freight})
    IN  [i \in 1..Len(sorted) |-> FreightRow(sorted[i])]

all_products == in_products \o sl_products

\* the values offered by the dropdown of input row r (Lists columns A..G)
ListValues(r) ==
    LET P == {all_products[i] : i \in 1..Len(all_products)} IN
    CASE r = 4 -> {p.size : p \in P} \ {<<>>}
      [] r = 5 -> {p.chips_pith : p \in P} \ {<<>>}
      [] r = 6 -> {p.ec_level : p \in P} \ {<<>>}
      [] r = 7 -> {p.plastic : p \in P} \ {<<>>}
      [] r = 8 -> {p.holes : p \in P}
      [] r = 9 -> {p.bsu : p \in P}
      [] r = 10 -> {freight[k].destination : k \in DOMAIN freight}

InputRows == 4..10

\* the Quote sheet as written: B4..B10 empty, B12 = 0.30
NewInputs == [r \in InputRows \cup {12} |-> IF r = 12 THEN Num(3, 10) ELSE <<>>]

\* main: wb = build_tool(in_products, sl_products, freight, tonnage)
BuildTool ==
    /\ pc = "build_tool"
    /\ fr_rows' = FreightRows
    /\ B' = NewInputs
    /\ pc' = "quote"
    /\ UNCHANGED <<matches, files, price_wb, tonnage_sheet, rate_sheet, transit_sheet, in_products, sl_products,
                   freight, freight_destinations, row_idx, raw, quality_issues,
                   dest_idx, tonnage, matched, defaults>>

\* the discounts the user may type into B12, which has no dropdown
Discounts == {Num(3, 10), Num(1, 2)}

\* the values the user may give to the input cell of row r: a value of its
\* dropdown or nothing for B4..B10, a discount for B12
Choices(r) == IF r = 12 THEN Discounts ELSE ListValues(r) \cup {<<>>}

\* the user picks a value of the dropdown of one input cell, clears the cell,
\* or types a discount
SetInput ==
    /\ pc = "quote"
    /\ \E r \in InputRows \cup {12} : \E v \in Choices(r) :
          /\ B[r] # v
          /\ B' = [B EXCEPT ![r] = v]
    /\ UNCHANGED <<pc, matches, files, price_wb, tonnage_sheet, rate_sheet, transit_sheet, in_products,
                   sl_products, freight, freight_destinations, row_idx, raw,
                   quality_issues, dest_idx, tonnage, matched, defaults, fr_rows>>

Next ==
    \/ FindFile
    \/ SelectFile
    \/ ReadPriceList
    \/ ReadFreight
    \/ CallReadTonnage
    \/ ReadTonnageRow
    \/ MatchDestination
    \/ ReadTonnageReturn
    \/ BuildTool
    \/ SetInput

-----------------------------------------------------------------------------
(* Inputs *)

\* all sequences over S of length at most n
RECURSIVE SeqsUpTo(_, _)
SeqsUpTo(S, n) ==
    IF n = 0 THEN {<<>>}
    ELSE LET shorter == SeqsUpTo(S, n - 1)
         IN  shorter \cup {Append(q, x) : q \in {t \in shorter : Len(t) = n - 1}, x \in S}

RECURSIVE Selections(_, _)
\* the sheets made of at most n rows of the sheet m, in the order of m
Selections(m, n) ==
    IF m = <<>> \/ n = 0 THEN {<<>>}
    ELSE Selections(Tail(m), n)
         \cup {<<Head(m)>> \o q : q \in Selections(Tail(m), n - 1)}

o_Cochin == <<"C", "o", "c", "h", "i", "n", ",", " ", "I", "N">>
o_Tuticorin == <<"T", "u", "t", "i", "c", "o", "r", "i", "n", ",", " ", "I", "N">>
o_Colombo == <<"C", "o", "l", "o", "m", "b", "o", ",", " ", "L", "K">>
o_Chennai == <<"C", "h", "e", "n", "n", "a", "i", ",", " ", "I", "N">>

d_Hamburg_DE == <<"H", "a", "m", "b", "u", "r", "g", ",", " ", "D", "E">>
d_hamburg_de == <<"h", "a", "m", "b", "u", "r", "g", ",", " ", "d", "e">>
d_Cartagena_CO == <<"C", "a", "r", "t", "a", "g", "e", "n", "a", ",", " ", "C", "O">>
d_CARTAGENA_CO == <<"C", "A", "R", "T", "A", "G", "E", "N", "A", ",", " ", "C", "O">>
d_Lisbon_PT == <<"L", "i", "s", "b", "o", "n", ",", " ", "P", "T">>
d_Osaka_JP == <<"O", "s", "a", "k", "a", ",", " ", "J", "P">>

p_Hamburg == <<"H", "a", "m", "b", "u", "r", "g">>
p_HAMBURG_ws == <<"H", "A", "M", "B", "U", "R", "G", " ">>
p_Germany == <<"G", "e", "r", "m", "a", "n", "y">>
p_Lisbao == <<"L", "i", "s", "b", "a", "o">>
p_Lisbon == <<"L", "i", "s", "b", "o", "n">>
p_Cartagena == <<"C", "a", "r", "t", "a", "g", "e", "n", "a">>
CT_20GP == <<"2", "0", "G", "P">>

TRow(port, country, gross, ctype) ==
    [port |-> port, country |-> country, gross |-> gross, ctype |-> ctype]
RRow(origin, dest, all_in) == [origin |-> origin, dest |-> dest, all_in |-> all_in]

MaxTonnageRows == 2
MaxDestinations == 2

\* Tonnage rows of the tonnage-matcher inputs
TonnageRowPool ==
    { TRow(p_Hamburg, p_Germany, Num(20, 1), CT_40HC),
      TRow(p_HAMBURG_ws, p_Germany, Num(25, 1), CT_40HC),
      TRow(p_Germany, p_Hamburg, Num(30, 1), CT_40HC),
      TRow(p_Lisbao, <<>>, Num(24, 1), CT_40HC),
      TRow(p_Lisbon, <<>>, Num(26, 1), CT_40HC),
      TRow(p_Cartagena, <<>>, Num(22, 1), CT_40HC),
      TRow(p_Hamburg, p_Germany, Num(28, 1), CT_20GP),
      TRow(<<>>, p_Germany, Num(25, 1), CT_40HC) }

\* RATE SHEET rows of the tonnage-matcher inputs: one origin, every destination
TonnageRateSheet ==
    << RRow(o_Cochin, d_CARTAGENA_CO, Num(1000, 1)),
       RRow(o_Cochin, d_Cartagena_CO, Num(1000, 1)),
       RRow(o_Cochin, d_Hamburg_DE, Num(1000, 1)),
       RRow(o_Cochin, d_Lisbon_PT, Num(1000, 1)) >>

\* a row of a product sheet of the price list: columns A, B, L..R and S..Y
PRow(prod_no, desc, pcs, fob) == [prod_no |-> prod_no, desc |-> desc, pcs |-> pcs, fob |-> fob]

\* a price list without product rows
NoPrices == [IN_GB |-> <<>>, SL_GB |-> <<>>]

\* exactly one candidate for each of the three input files
OneEach == <<1, 1, 1>>

\* the state when the start-up code makes its first find_file call; nothing of
\* the later steps exists yet
Start ==
    /\ pc = "find_file"
    /\ files = <<>>
    /\ in_products = <<>>
    /\ sl_products = <<>>
    /\ freight = EmptyMap
    /\ freight_destinations = <<>>
    /\ row_idx = 3
    /\ dest_idx = 1
    /\ raw = EmptyMap
    /\ tonnage = EmptyMap
    /\ quality_issues = <<>>
    /\ matched = <<>>
    /\ defaults = <<>>
    /\ fr_rows = <<>>
    /\ B = NewInputs

\* a folder with two rate sheets to choose from, each of them without rows
AmbiguousStart ==
    /\ matches = <<2, 1, 1>>
    /\ price_wb = NoPrices
    /\ tonnage_sheet = <<>>
    /\ rate_sheet = <<>>
    /\ transit_sheet = <<>>
    /\ Start

\* inputs that exercise the tonnage matcher
InitTonnage ==
    \/ /\ matches = OneEach
       /\ price_wb = NoPrices
       /\ tonnage_sheet \in SeqsUpTo(TonnageRowPool, MaxTonnageRows)
       /\ rate_sheet \in Selections(TonnageRateSheet, MaxDestinations)
       /\ transit_sheet = <<>>
       /\ Start
    \/ AmbiguousStart

SpecTonnage == InitTonnage /\ [][Next]_vars

-----------------------------------------------------------------------------
(* Inputs of the whole run: routes from every origin *)

MaxRateRows == 3
MaxSurveyRows == 1

\* RATE SHEET rows: 'Hamburg, DE' from every origin, 'Osaka, JP' from Cochin
\* and Colombo, and a lower-case 'hamburg, de' from Cochin, each with its own
\* rate
MainRateSheet ==
    << RRow(o_Chennai, d_Hamburg_DE, Num(1100, 1)),
       RRow(o_Cochin, d_Hamburg_DE, Num(1400, 1)),
       RRow(o_Cochin, d_Osaka_JP, Num(1500, 1)),
       RRow(o_Cochin, d_hamburg_de, Num(1600, 1)),
       RRow(o_Colombo, d_Hamburg_DE, Num(1700, 1)),
       RRow(o_Colombo, d_Osaka_JP, Num(1800, 1)),
       RRow(o_Tuticorin, d_Hamburg_DE, Num(2000, 1)) >>

MainTonnageRowPool ==
    { TRow(p_Hamburg, p_Germany, Num(25, 1), CT_40HC) }

Init ==
    \/ /\ matches = OneEach
       /\ price_wb = NoPrices
       /\ tonnage_sheet \in SeqsUpTo(MainTonnageRowPool, MaxSurveyRows)
       /\ rate_sheet \in Selections(MainRateSheet, MaxRateRows)
       /\ transit_sheet = <<>>
       /\ Start
    \/ AmbiguousStart

Spec == Init /\ [][Next]_vars

-----------------------------------------------------------------------------
(* Inputs of the quote: catalogs and routes to one destination *)

desc_a ==
    <<"G", "B", " ", "1", "0", "0", "x", "1", "8", "x", "1", "6", " ", "1", "6", "m", "m",
      " ", "N", "W", " ", "P", "3", "Y", " ", "N", "O", " ", "H", "O", "L", "E", "S", " ",
      "B", "S", "U">>
desc_b ==
    <<"G", "B", " ", "1", "0", "0", "x", "1", "8", "x", "1", "6", " ", "1", "6", "m", "m",
      " ", "N", "W", " ", "P", "3", "Y">>

AllTiers(x) == [i \in 1..7 |-> x]

\* IN-GB: two rows of one key
InCatalog ==
    << PRow(<<"G", "1">>, desc_a, AllTiers(Num(8000, 1)), AllTiers(Num(2, 1))),
       PRow(<<"G", "2">>, desc_a, AllTiers(Num(9000, 1)), AllTiers(Num(3, 1))) >>

\* SL-GB: two rows of different keys
SlCatalog ==
    << PRow(<<"S", "1">>, desc_b, AllTiers(Num(7000, 1)), AllTiers(Num(5, 2))),
       PRow(<<"S", "2">>, desc_a, AllTiers(Num(7500, 1)), AllTiers(Num(9, 4))) >>

MaxProducts == 2
MaxQuoteRoutes == 3

QuoteRateSheet ==
    << RRow(o_Cochin, d_Hamburg_DE, Num(1000, 1)),
       RRow(o_Colombo, d_Hamburg_DE, Num(1200, 1)),
       RRow(o_Tuticorin, d_Hamburg_DE, Num(1100, 1)) >>

QuoteTonnageRowPool == { TRow(p_Hamburg, p_Germany, Num(117, 5), CT_40HC) }

InitQuote ==
    \/ /\ matches = OneEach
       /\ price_wb \in {[IN_GB |-> a, SL_GB |-> b] :
                            a \in Selections(InCatalog, MaxProducts),
                            b \in Selections(SlCatalog, MaxProducts)}
       /\ tonnage_sheet \in SeqsUpTo(QuoteTonnageRowPool, 1) \ {<<>>}
       /\ rate_sheet \in Selections(QuoteRateSheet, MaxQuoteRoutes)
       /\ transit_sheet = <<>>
       /\ Start
    \/ AmbiguousStart

SpecQuote == InitQuote /\ [][Next]_vars

-----------------------------------------------------------------------------
(* Inputs of the weight tier: one route, one product, every kind of weight *)

\* gross weights around every tier value
TierWeights ==
    { Num(0, 1), Num(97, 5), Num(39, 2), Num(219, 10), Num(22, 1), Num(117, 5),
      Num(269, 10), Num(27, 1), Num(100, 1) }

TierRowPool == { TRow(p_Hamburg, p_Germany, w, CT_40HC) : w \in TierWeights }

InitTier ==
    \/ /\ matches = OneEach
       /\ price_wb = [IN_GB |-> SubSeq(InCatalog, 1, 1), SL_GB |-> SubSeq(SlCatalog, 2, 2)]
       /\ tonnage_sheet \in SeqsUpTo(TierRowPool, MaxSurveyRows)
       /\ rate_sheet \in Selections(<<RRow(o_Cochin, d_Hamburg_DE, Num(1000, 1))>>, 1)
       /\ transit_sheet = <<>>
       /\ Start
    \/ AmbiguousStart

SpecTier == InitTier /\ [][Next]_vars

-----------------------------------------------------------------------------
(* Inputs of the unit economics: every kind of price and unit count *)

MaxCostRows == 1

\* seven tier cells with the value x at the 23 MT tier
TierCells(x) == [i \in 1..7 |-> IF i = 3 THEN x ELSE Num(100 * i, 1)]

\* IN-GB rows of one description: unit count present, empty, zero or negative,
\* price present or empty, and a row without a product number
CostRowPool ==
    { PRow(<<"G", "1">>, desc_a, TierCells(pcs), TierCells(Num(2, 1))) :
        pcs \in {Num(8000, 1), None, Num(0, 1), Num(-5, 1)} }
    \cup { PRow(<<"G", "1">>, desc_a, TierCells(Num(8000, 1)), TierCells(None)) }
    \cup { PRow(<<>>, desc_a, TierCells(Num(6000, 1)), TierCells(Num(4, 1))) }

CostRateSheet ==
    << RRow(o_Cochin, d_Hamburg_DE, Num(1000, 1)),
       RRow(o_Colombo, d_Hamburg_DE, Num(1200004, 1000)) >>

\* a confirmed weight in the 23 MT tier, or one below the lowest tier
CostTonnageSheets ==
    { <<TRow(p_Hamburg, p_Germany, Num(117, 5), CT_40HC)>>,
      <<TRow(p_Hamburg, p_Germany, Num(18, 1), CT_40HC)>> }

InitCost ==
    \/ /\ matches = OneEach
       /\ price_wb \in {[IN_GB |-> a, SL_GB |-> SubSeq(SlCatalog, 2, 2)] :
                            a \in SeqsUpTo(CostRowPool, MaxCostRows)}
       /\ tonnage_sheet \in CostTonnageSheets
       /\ rate_sheet \in Selections(CostRateSheet, 2)
       /\ transit_sheet = <<>>
       /\ Start
    \/ AmbiguousStart

SpecCost == InitCost /\ [][Next]_vars

-----------------------------------------------------------------------------
(* Inputs of the start-up: every number of candidates for every input file *)

MaxCandidates == 2

\* a folder with 0..MaxCandidates candidates for each of the three patterns;
\* whichever files are chosen hold one product, one survey row and one route
InitStartup ==
    /\ matches \in [1..Len(Patterns) -> 0..MaxCandidates]
    /\ price_wb = [IN_GB |-> SubSeq(InCatalog, 1, 1), SL_GB |-> <<>>]
    /\ tonnage_sheet = <<TRow(p_Hamburg, p_Germany, Num(117, 5), CT_40HC)>>
    /\ rate_sheet = <<RRow(o_Cochin, d_Hamburg_DE, Num(1000, 1))>>
    /\ transit_sheet = <<>>
    /\ Start

SpecStartup == InitStartup /\ [][Next]_vars

-----------------------------------------------------------------------------
(* Inputs of the route reader: self-routes, untrimmed and repeated pairs,
   transit rows with and without digits *)

MaxFreightRows == 2
MaxTransitRows == 3

\* a row of the Transit Time sheet: columns A, D and K
TTRow(receipt, delivery, tt) == [receipt |-> receipt, delivery |-> delivery, tt |-> tt]

o_Cochin_padded == <<" ">> \o o_Cochin \o <<" ">>
d_Hamburg_DE_padded == <<" ">> \o d_Hamburg_DE

\* RATE SHEET rows: a pair with padded cells, the same pair again, a route from
\* Hamburg to Hamburg, a route from Colombo, a row without a rate
FreightRateSheet ==
    << RRow(o_Cochin_padded, d_Hamburg_DE, Num(1000, 1)),
       RRow(o_Cochin, d_Hamburg_DE, Num(1100, 1)),
       RRow(d_Hamburg_DE, d_Hamburg_DE_padded, Num(900, 1)),
       RRow(o_Colombo, d_Hamburg_DE, Num(1200, 1)),
       RRow(o_Cochin, d_Osaka_JP, None) >>

\* Transit Time rows: a description without a digit, another pair, the pair
\* with a padded cell, the pair again, the pair of Colombo, the reversed pair
FreightTransitSheet ==
    << TTRow(o_Cochin, d_Hamburg_DE, <<"s", "o", "o", "n">>),
       TTRow(o_Cochin, d_Osaka_JP, <<"2", "0", " ", "D", "a", "y", "s">>),
       TTRow(o_Cochin_padded, d_Hamburg_DE, <<"4", "6", " ", "D", "a", "y", "s">>),
       TTRow(o_Cochin, d_Hamburg_DE, <<"1", "2", "-", "1", "4", " ", "d", "a", "y", "s">>),
       TTRow(o_Colombo, d_Hamburg_DE, <<"D", "a", "y", " ", "3", "0", " ", "+", "2">>),
       TTRow(d_Hamburg_DE, o_Cochin, <<"9">>) >>

InitFreight ==
    \/ /\ matches = OneEach
       /\ price_wb = NoPrices
       /\ tonnage_sheet = <<TRow(p_Hamburg, p_Germany, Num(117, 5), CT_40HC)>>
       /\ rate_sheet \in Selections(FreightRateSheet, MaxFreightRows)
       /\ transit_sheet \in Selections(FreightTransitSheet, MaxTransitRows)
       /\ Start
    \/ AmbiguousStart

SpecFreight == InitFreight /\ [][Next]_vars

-----------------------------------------------------------------------------
(* Inputs of the defect detection of read_tonnage: a swapped row beside
   genuine Hamburg rows, misspelt, padded and annotated names, a row without a
   weight; routes from India and from Sri Lanka *)

MaxDefectRows == 2

DefectRowPool ==
    { TRow(p_Hamburg, p_Germany, Num(20, 1), CT_40HC),
      TRow(p_Hamburg, p_Germany, Num(30, 1), CT_40HC),
      TRow(<<"G", "E", "R", "M", "A", "N", "Y">>, <<"h", "a", "m", "b", "u", "r", "g">>, Num(25, 1), CT_40HC),
      TRow(<<"Y", "o", "k", "o", "h", "o", "m", "a">>, <<"J", "a", "p", "a", "n">>, Num(24, 1), CT_40HC),
      TRow(<<"O", "s", "a", "k", "a", " ", "(", "*", "*", ")">>, <<"J", "a", "p", "a", "n">>, Num(26, 1), CT_40HC),
      TRow(<<"L", "e", " ", "H", "a", "r", "v", "e", " ">>, <<"F", "r", "a", "n", "c", "e">>, Num(22, 1), CT_40HC),
      TRow(p_Hamburg, p_Germany, None, CT_40HC) }

d_Yokohama_JP == <<"Y", "o", "k", "o", "h", "a", "m", "a", ",", " ", "J", "P">>

DefectRateSheet ==
    << RRow(o_Cochin, d_Hamburg_DE, Num(1000, 1)),
       RRow(o_Colombo, d_Osaka_JP, Num(1100, 1)),
       RRow(o_Cochin, d_Yokohama_JP, Num(1200, 1)) >>

InitDefects ==
    \/ /\ matches = OneEach
       /\ price_wb = NoPrices
       /\ tonnage_sheet \in SeqsUpTo(DefectRowPool, MaxDefectRows)
       /\ rate_sheet = DefectRateSheet
       /\ transit_sheet = <<>>
       /\ Start
    \/ AmbiguousStart

SpecDefects == InitDefects /\ [][Next]_vars

-----------------------------------------------------------------------------
(* Inputs of parse_description: descriptions with and without each field *)

MaxParseRows == 1

\* the descriptions of the rows of ParseSheet
\* GB 100x18x16 16mm NW P3Y NO HOLES
desc_1 ==
    <<"G", "B", " ", "1", "0", "0", "x", "1", "8", "x", "1", "6", " ",
      "1", "6", "m", "m", " ", "N", "W", " ", "P", "3", "Y", " ", "N",
      "O", " ", "H", "O", "L", "E", "S">>

\* GB 100x18x16 16mm NW P3Y no (two spaces) holes BSU
desc_2 ==
    <<"G", "B", " ", "1", "0", "0", "x", "1", "8", "x", "1", "6", " ",
      "1", "6", "m", "m", " ", "N", "W", " ", "P", "3", "Y", " ", "n",
      "o", " ", " ", "h", "o", "l", "e", "s", " ", "B", "S", "U">>

\* GB 100x18x16 16mm NW P3Y MONO HOLES
desc_4 ==
    <<"G", "B", " ", "1", "0", "0", "x", "1", "8", "x", "1", "6", " ",
      "1", "6", "m", "m", " ", "N", "W", " ", "P", "3", "Y", " ", "M",
      "O", "N", "O", " ", "H", "O", "L", "E", "S">>

\* GB 16mm NW P3Y NO HOLES
desc_5 ==
    <<"G", "B", " ", "1", "6", "m", "m", " ", "N", "W", " ", "P", "3",
      "Y", " ", "N", "O", " ", "H", "O", "L", "E", "S">>

\* GB 100x18x16 NW P3Y
desc_6 ==
    <<"G", "B", " ", "1", "0", "0", "x", "1", "8", "x", "1", "6", " ",
      "N", "W", " ", "P", "3", "Y">>

\* GB 100x18x16 16mm P3Y HOLES
desc_7 ==
    <<"G", "B", " ", "1", "0", "0", "x", "1", "8", "x", "1", "6", " ",
      "1", "6", "m", "m", " ", "P", "3", "Y", " ", "H", "O", "L", "E",
      "S">>

\* GB 100x18x16 16mm NW
desc_8 ==
    <<"G", "B", " ", "1", "0", "0", "x", "1", "8", "x", "1", "6", " ",
      "1", "6", "m", "m", " ", "N", "W">>

\* NOHOLES
desc_9 ==
    <<"N", "O", "H", "O", "L", "E", "S">>

ParseDescriptions ==
    <<desc_1, desc_2, desc_4, desc_5, desc_6, desc_7, desc_8, desc_9>>

\* IN-GB rows G1..G8, each with its description
ParseSheet ==
    [i \in 1..Len(ParseDescriptions) |->
        PRow(<<"G", Digits[i + 1]>>, ParseDescriptions[i],
             AllTiers(Num(8000, 1)), AllTiers(Num(2, 1)))]

InitParse ==
    \/ /\ matches = OneEach
       /\ price_wb \in {[IN_GB |-> a, SL_GB |-> SubSeq(SlCatalog, 2, 2)] :
                            a \in Selections(ParseSheet, MaxParseRows)}
       /\ tonnage_sheet = <<TRow(p_Hamburg, p_Germany, Num(117, 5), CT_40HC)>>
       /\ rate_sheet = <<RRow(o_Cochin, d_Hamburg_DE, Num(1000, 1))>>
       /\ transit_sheet = <<>>
       /\ Start
    \/ AmbiguousStart

SpecParse == InitParse /\ [][Next]_vars

-----------------------------------------------------------------------------
(* Spreadsheet values and functions *)

\* a cell value: a text, a number, or an error (t is then the error's name)
Txt(s) == [t |-> "text", s |-> s, x |-> None]
NumV(x) == [t |-> "num", s |-> <<>>, x |-> x]
Err(e) == [t |-> e, s |-> <<>>, x |-> None]
IsErr(v) == v.t \notin {"text", "num"}
IsNum(v) == v.t = "num"

Blank == Txt(<<>>)
Dash == Txt(<<"-">>)

\* IFERROR(v, alt)
IFERROR(v, alt) == IF IsErr(v) THEN alt ELSE v

\* MATCH0 returning the last position whose text equals v
MATCH0_last(v, range) ==
    LET hits == {i \in DOMAIN range : Lower(range[i]) = Lower(v)}
    IN  IF hits = {} THEN Err("#N/A")
        ELSE NumV(Int2Num(CHOOSE i \in hits : \A j \in hits : i >= j))

\* MATCH(v, range, 0) on texts: the first position whose text equals v; the
\* comparison of texts ignores letter case
MATCH0(v, range) ==
    LET hits == {i \in DOMAIN range : Lower(range[i]) = Lower(v)}
    IN  IF hits = {} THEN Err("#N/A")
        ELSE NumV(Int2Num(CHOOSE i \in hits : \A j \in hits : i <= j))

RECURSIVE Bisect(_, _, _, _)
\* the binary search of MATCH(v, range, 1) between positions lo and hi
Bisect(v, range, lo, hi) ==
    IF lo > hi THEN hi
    ELSE LET mid == (lo + hi) \div 2
         IN  IF NumLE(range[mid], v) THEN Bisect(v, range, mid + 1, hi)
             ELSE Bisect(v, range, lo, mid - 1)

\* MATCH1 returning the smallest value that is at least v
MATCH1_ceiling(v, range) ==
    LET above == {i \in DOMAIN range : NumLE(v, range[i])}
    IN  IF above = {} THEN Err("#N/A")
        ELSE NumV(Int2Num(CHOOSE i \in above : \A j \in above : i <= j))

\* MATCH(v, range, 1) on numbers in ascending order
MATCH1(v, range) ==
    LET pos == Bisect(v, range, 1, Len(range))
    IN  IF pos = 0 THEN Err("#N/A") ELSE NumV(Int2Num(pos))

\* a cell of a data sheet as a formula reads it: an empty cell reads as 0
CellNum(x) == IF IsNone(x) THEN NumV(Int2Num(0)) ELSE NumV(x)

\* a * b, a + b, a / b
Times(a, b) ==
    IF IsErr(a) THEN a ELSE IF IsErr(b) THEN b
    ELSE IF ~IsNum(a) \/ ~IsNum(b) THEN Err("#VALUE!")
    ELSE NumV(NumMul(a.x, b.x))
Plus(a, b) ==
    IF IsErr(a) THEN a ELSE IF IsErr(b) THEN b
    ELSE IF ~IsNum(a) \/ ~IsNum(b) THEN Err("#VALUE!")
    ELSE NumV(NumAdd(a.x, b.x))
Over(a, b) ==
    IF IsErr(a) THEN a ELSE IF IsErr(b) THEN b
    ELSE IF ~IsNum(a) \/ ~IsNum(b) THEN Err("#VALUE!")
    ELSE IF b.x.n = 0 THEN Err("#DIV/0!")
    ELSE NumV(NumDiv(a.x, b.x))

\* the position held by a helper cell
Pos(v) == v.x.n

-----------------------------------------------------------------------------
(* Named ranges of the workbook *)

WEIGHT_TIERS ==
    <<Num(39, 2), Num(22, 1), Num(23, 1), Num(24, 1), Num(25, 1), Num(26, 1), Num(27, 1)>>

\* the tier values as the spreadsheet joins them into a text
TierText ==
    << <<"1", "9", ".", "5">>, <<"2", "2">>, <<"2", "3">>, <<"2", "4">>,
       <<"2", "5">>, <<"2", "6">>, <<"2", "7">> >>

\* the product sheet of a result row: 'IN' is IN_GB, 'SL' is SL_GB
\* Sheet with the two catalogs merged into one
Sheet_merged(prefix) == in_products \o sl_products

Sheet(prefix) == IF prefix = "IN" THEN in_products ELSE sl_products

Keys(prefix) == [i \in DOMAIN Sheet(prefix) |-> Sheet(prefix)[i].key]
FR_Keys == [i \in DOMAIN fr_rows |-> fr_rows[i].key]

-----------------------------------------------------------------------------
(* _build_quote_sheet: helper cells K4..K13 *)

K4 == B[4] \o <<"|">> \o B[5] \o <<"|">> \o B[6] \o <<"|">> \o B[7] \o <<"|">>
      \o B[8] \o <<"|">> \o B[9]

\* K6 counting the six attribute cells only
K6_attributes_only == \A r \in 4..9 : B[r] # <<>>

\* K6 with OR in place of AND
K6_any_filled == \E r \in InputRows : B[r] # <<>>

K6 == \A r \in InputRows : B[r] # <<>>

K7 == IFERROR(MATCH0(K4, Keys("IN")), NumV(Int2Num(0)))
K8 == IFERROR(MATCH0(K4, Keys("SL")), NumV(Int2Num(0)))

K9 == IFERROR(MATCH0(o_Cochin \o <<"|">> \o B[10], FR_Keys), NumV(Int2Num(0)))
K10 == IFERROR(MATCH0(o_Tuticorin \o <<"|">> \o B[10], FR_Keys), NumV(Int2Num(0)))
K11 == IFERROR(MATCH0(o_Colombo \o <<"|">> \o B[10], FR_Keys), NumV(Int2Num(0)))

\* K12 reading the weight of the Cochin route only
K12_cochin_only ==
    IF Pos(K9) > 0 THEN NumV(fr_rows[Pos(K9)].gross_wt)
    ELSE NumV(Int2Num(0))

K12 ==
    IF Pos(K9) > 0 THEN NumV(fr_rows[Pos(K9)].gross_wt)
    ELSE IF Pos(K10) > 0 THEN NumV(fr_rows[Pos(K10)].gross_wt)
    ELSE IF Pos(K11) > 0 THEN NumV(fr_rows[Pos(K11)].gross_wt)
    ELSE NumV(Int2Num(0))

\* K13 reading the flag of the Cochin route only
K13_cochin_only ==
    IF Pos(K9) > 0 THEN NumV(Int2Num(fr_rows[Pos(K9)].confirmed))
    ELSE NumV(Int2Num(0))

K13 ==
    IF Pos(K9) > 0 THEN NumV(Int2Num(fr_rows[Pos(K9)].confirmed))
    ELSE IF Pos(K10) > 0 THEN NumV(Int2Num(fr_rows[Pos(K10)].confirmed))
    ELSE IF Pos(K11) > 0 THEN NumV(Int2Num(fr_rows[Pos(K11)].confirmed))
    ELSE NumV(Int2Num(0))

K5 == IFERROR(MATCH1(K12.x, WEIGHT_TIERS), NumV(Int2Num(0)))

\* B11: the weight tier shown to the user
B11 ==
    IF B[10] = <<>> THEN Blank
    ELSE IF Pos(K5) = 0 THEN Txt(<<"N", "/", "A">>)
    ELSE Txt(TierText[Pos(K5)] \o <<" ", "M", "T">>
             \o (IF Pos(K13) = 0
                 THEN <<" ", "(", "U", "N", "C", "O", "N", "F", "I", "R", "M", "E", "D", ")">>
                 ELSE <<>>))

\* A13: the tonnage warning
A13 ==
    IF B[10] # <<>> /\ Pos(K13) = 0
    THEN "WARNING: No confirmed weight data for this destination. Using default 23 MT. Verify before quoting."
    ELSE ""

\* A21: the status message
A21 ==
    IF ~K6 THEN "Please fill in all input fields above."
    ELSE IF Pos(K7) = 0 /\ Pos(K8) = 0 THEN "No results found with the query inputs."
    ELSE IF Pos(K7) > 0 /\ Pos(K8) > 0 /\ Pos(K9) > 0 /\ Pos(K10) > 0 /\ Pos(K11) > 0 THEN ""
    ELSE IF Pos(K7) = 0 /\ Pos(K8) > 0 THEN "Product not available from India."
    ELSE IF Pos(K7) > 0 /\ Pos(K8) = 0 THEN "Product not available from Sri Lanka."
    ELSE IF Pos(K9) = 0 /\ Pos(K10) = 0 /\ Pos(K11) > 0
        THEN "No freight routes available from India to this destination."
    ELSE IF Pos(K9) > 0 /\ Pos(K10) > 0 /\ Pos(K11) = 0
        THEN "No freight route available from Sri Lanka to this destination."
    ELSE IF Pos(K9) = 0 /\ Pos(K10) = 0 /\ Pos(K11) = 0
        THEN "No freight routes available to this destination."
    ELSE ""

\* B23, B24: the full descriptions
B23 ==
    IF ~K6 THEN Blank
    ELSE IF Pos(K7) = 0 THEN Dash ELSE Txt(in_products[Pos(K7)].description)
B24 ==
    IF ~K6 THEN Blank
    ELSE IF Pos(K8) = 0 THEN Dash ELSE Txt(sl_products[Pos(K8)].description)

-----------------------------------------------------------------------------
(* _write_result_row: the cells B..I of a result row *)

\* the product match cell and the freight match cell of a row
ResultRows == {17, 18, 19}
Prefix(row) == IF row = 19 THEN "SL" ELSE "IN"
MR(row) == IF Prefix(row) = "IN" THEN K7 ELSE K8
FR(row) == CASE row = 17 -> K9 [] row = 18 -> K10 [] row = 19 -> K11

\* the insurance and margin multiplier 1.0605
Multiplier == Num(2121, 2000)

ProductCode(row) ==
    IF ~K6 THEN Blank
    ELSE IF Pos(MR(row)) = 0 THEN Dash
    ELSE Txt(Sheet(Prefix(row))[Pos(MR(row))].product_no)

FobPrice(row) ==
    IF ~K6 THEN Blank
    ELSE IF Pos(MR(row)) = 0 \/ Pos(K5) = 0 THEN Dash
    ELSE CellNum(Sheet(Prefix(row))[Pos(MR(row))].fob[Pos(K5)])

\* DiscFob with the default discount written into the formula
DiscFob_default_discount(row) ==
    IF ~K6 THEN Blank
    ELSE IF Pos(MR(row)) = 0 \/ Pos(K5) = 0 THEN Dash
    ELSE Times(FobPrice(row), NumV(Num(7, 10)))

DiscFob(row) ==
    IF ~K6 THEN Blank
    ELSE IF Pos(MR(row)) = 0 \/ Pos(K5) = 0 THEN Dash
    ELSE Times(FobPrice(row), NumV(NumSub(Int2Num(1), B[12])))

FreightPerContainer(row) ==
    IF ~K6 THEN Blank
    ELSE IF Pos(FR(row)) = 0 THEN Dash
    ELSE Times(NumV(fr_rows[Pos(FR(row))].all_in_usd), NumV(Multiplier))

UnitsPerContainer(row) ==
    IF ~K6 THEN Blank
    ELSE IF Pos(MR(row)) = 0 \/ Pos(K5) = 0 THEN Dash
    ELSE CellNum(Sheet(Prefix(row))[Pos(MR(row))].pcs[Pos(K5)])

\* FreightPerUnit without IFERROR
FreightPerUnit_unguarded(row) ==
    IF ~K6 THEN Blank
    ELSE Over(FreightPerContainer(row), UnitsPerContainer(row))

FreightPerUnit(row) ==
    IF ~K6 THEN Blank
    ELSE IFERROR(Over(FreightPerContainer(row), UnitsPerContainer(row)), Dash)

TotalCost(row) ==
    IF ~K6 THEN Blank
    ELSE IFERROR(Plus(DiscFob(row), FreightPerUnit(row)), Dash)

TransitTime(row) ==
    IF ~K6 THEN Blank
    ELSE IF Pos(FR(row)) = 0 THEN Dash
    ELSE NumV(Int2Num(fr_rows[Pos(FR(row))].transit_days))

-----------------------------------------------------------------------------
(* Properties of the tonnage matcher *)

Range(q) == {q[i] : i \in DOMAIN q}

\* the loop over the Tonnage rows has finished
PassOneDone == pc \in {"read_tonnage", "build_tool", "quote"} /\ row_idx > MaxRow

\* read_tonnage has returned
Returned == pc \in {"build_tool", "quote"}

\* the city token of a destination: the text before the first comma, trimmed,
\* lowercased
CityOf(d) == Lower(Strip(SplitCommaFirst(d)))

TimesMatched(d) == Cardinality({i \in DOMAIN matched : matched[i].dest = d})
TimesDefaulted(d) == Cardinality({i \in DOMAIN defaults : defaults[i] = d})

\* C2: once read_tonnage has returned, the keys of the tonnage map are exactly
\* the destinations it was given, and every destination was classified exactly
\* once: either matched (confirmed) or default (unconfirmed).
C2_OnePairPerDestination ==
    Returned =>
        /\ DOMAIN tonnage = Range(freight_destinations)
        /\ \A d \in Range(freight_destinations) :
              /\ TimesMatched(d) + TimesDefaulted(d) = 1
              /\ tonnage[d].confirmed <=> (TimesMatched(d) = 1)
              /\ ~tonnage[d].confirmed <=> (TimesDefaulted(d) = 1)

C2_Witness ==
    /\ Returned
    /\ Len(matched) >= 1
    /\ Len(defaults) >= 1

\* C3: a destination that is not in the override table, not on the skip list
\* and whose city token is no key of the deduplicated entries resolves to
\* exactly 23 MT, unconfirmed.
C3_UnmatchedGetsDefault ==
    \A d \in DOMAIN tonnage :
        ( /\ Lower(d) \notin OverrideKeys
          /\ Lower(d) # k_cartagena_co
          /\ CityOf(d) \notin DOMAIN raw )
        => /\ tonnage[d].gross = Num(23, 1)
           /\ tonnage[d].confirmed = FALSE

C3_Witness ==
    \E d \in DOMAIN tonnage :
        /\ Lower(d) \notin OverrideKeys
        /\ Lower(d) # k_cartagena_co
        /\ CityOf(d) \notin DOMAIN raw
        /\ DOMAIN raw # {}
        /\ tonnage[d].gross = Num(23, 1)

\* C4: a destination not on the skip list whose override target or whose city
\* token is a key of the deduplicated entries is recorded with an entry's
\* weight and confirmed = true.
C4_EitherMatchConfirms ==
    \A d \in DOMAIN tonnage :
        ( /\ Lower(d) # k_cartagena_co
          /\ \/ Lower(d) \in OverrideKeys /\ OVERRIDES[Lower(d)] \in DOMAIN raw
             \/ CityOf(d) \in DOMAIN raw )
        => /\ tonnage[d].confirmed = TRUE
           /\ \E k \in DOMAIN raw : tonnage[d].gross = raw[k].gross

\* C5: a destination that is 'cartagena, co' up to letter case gets (23,
\* unconfirmed) and exactly one quality issue recording the reason, whatever
\* entries exist; it is listed as default and never as matched.
C5_SkipListForcesDefault ==
    \A d \in DOMAIN tonnage :
        Lower(d) = k_cartagena_co =>
            /\ tonnage[d].gross = Num(23, 1)
            /\ tonnage[d].confirmed = FALSE
            /\ Cardinality({i \in DOMAIN quality_issues :
                    /\ quality_issues[i].kind = "not matched"
                    /\ quality_issues[i].name = d}) = 1
            /\ TimesDefaulted(d) = 1
            /\ TimesMatched(d) = 0

C5_Witness ==
    \E d \in DOMAIN tonnage :
        /\ Lower(d) = k_cartagena_co
        /\ CityOf(d) \in DOMAIN raw
        /\ tonnage[d].confirmed = FALSE

\* the '40HC' rows with a port and a weight
WeighedRows ==
    {i \in DOMAIN tonnage_sheet :
        /\ tonnage_sheet[i].port # <<>>
        /\ Strip(tonnage_sheet[i].ctype) = CT_40HC
        /\ ~IsNone(tonnage_sheet[i].gross)}

\* w is the largest weight of the rows I
IsMaxWeight(w, I) ==
    /\ \E i \in I : tonnage_sheet[i].gross = w
    /\ \A i \in I : NumLE(tonnage_sheet[i].gross, w)

\* the lowercased, trimmed port name written in row i
NameWritten(i) == Lower(Strip(tonnage_sheet[i].port))

\* the lowercased port name of row i after the port/country swap correction
NameStored(i) == Lower(PortStr(tonnage_sheet[i]))

\* C6 (as stated): after pass 1, every weighed '40HC' row has an entry under
\* its lowercased, trimmed port name, and the weight retained for a name is the
\* maximum over the weighed '40HC' rows written with that name.
C6_MaxPerWrittenName ==
    PassOneDone =>
        /\ \A i \in WeighedRows : NameWritten(i) \in DOMAIN raw
        /\ \A k \in DOMAIN raw :
              IsMaxWeight(raw[k].gross, {i \in WeighedRows : NameWritten(i) = k})

\* C6 (amended): after pass 1, the keys of the deduplicated table are the
\* names of the weighed '40HC' rows after the Germany/Hamburg swap correction,
\* and the weight retained for a name is the maximum over the rows of that
\* corrected name, whatever their order; names differing only in letter case
\* or surrounding blanks are one name.
C6_MaxPerStoredName ==
    PassOneDone =>
        /\ DOMAIN raw = {NameStored(i) : i \in WeighedRows}
        /\ \A k \in DOMAIN raw :
              IsMaxWeight(raw[k].gross, {i \in WeighedRows : NameStored(i) = k})

\* two rows whose names differ in letter case collide, the heavier one first
C6_Witness ==
    /\ PassOneDone
    /\ \E i, j \in WeighedRows :
          /\ i < j
          /\ tonnage_sheet[i].port # tonnage_sheet[j].port
          /\ NameStored(i) = NameStored(j)
          /\ NumGT(tonnage_sheet[i].gross, tonnage_sheet[j].gross)
          /\ raw[NameStored(i)].gross = tonnage_sheet[i].gross

-----------------------------------------------------------------------------
(* Properties of the Freight sheet and of the Quote sheet *)

\* the workbook exists
Built == pc = "quote"

\* C1: all rows of the Freight sheet with the same destination carry the same
\* (Gross_Weight_MT, Weight_Confirmed) pair, whatever their origin.
C1_SameWeightPerDestination ==
    Built =>
        \A i, j \in DOMAIN fr_rows :
            fr_rows[i].destination = fr_rows[j].destination
            => /\ fr_rows[i].gross_wt = fr_rows[j].gross_wt
               /\ fr_rows[i].confirmed = fr_rows[j].confirmed

\* a confirmed destination reached from India and from Sri Lanka
C1_Witness ==
    /\ Built
    /\ \E i, j \in DOMAIN fr_rows :
          /\ fr_rows[i].destination = fr_rows[j].destination
          /\ fr_rows[i].origin = o_Cochin
          /\ fr_rows[j].origin = o_Colombo
          /\ fr_rows[i].confirmed = 1
          /\ fr_rows[j].confirmed = 1

\* the tier positions whose value is at most w
TiersUpTo(w) == {i \in DOMAIN WEIGHT_TIERS : NumLE(WEIGHT_TIERS[i], w)}

\* C7: the resolved tier is the largest tier value that is at most the gross
\* weight; below 19.5 no tier resolves (index 0), and price and unit count of
\* every origin row are then shown as '-'.
C7_TierIsFloor ==
    Built =>
        LET w == K12.x IN
        /\ TiersUpTo(w) = {} =>
              /\ Pos(K5) = 0
              /\ K6 => \A row \in ResultRows :
                          FobPrice(row) = Dash /\ UnitsPerContainer(row) = Dash
        /\ TiersUpTo(w) # {} =>
              /\ Pos(K5) \in TiersUpTo(w)
              /\ \A i \in TiersUpTo(w) : NumLE(WEIGHT_TIERS[i], WEIGHT_TIERS[Pos(K5)])

\* 23.4 MT resolves to the 23 MT tier and the matched product's price is shown
C7_Witness ==
    /\ Built
    /\ K6
    /\ K12.x = Num(117, 5)
    /\ WEIGHT_TIERS[Pos(K5)] = Num(23, 1)
    /\ IsNum(FobPrice(17))

\* the origins of the cascade, in its order
CascadeOrigins == <<o_Cochin, o_Tuticorin, o_Colombo>>

\* the cascade origins that have a route to the destination d
OriginsWithRoute(d) == {n \in 1..3 : <<CascadeOrigins[n], d>> \in DOMAIN freight}

\* C8: the gross weight and the confirmed flag of a quote are those of the
\* route to the selected destination from the first of Cochin, Tuticorin,
\* Colombo that has one; with no such route both are 0.
C8_CascadeTakesFirstOrigin ==
    (Built /\ B[10] # <<>>) =>
        IF OriginsWithRoute(B[10]) = {}
        THEN K12.x = Int2Num(0) /\ K13.x = Int2Num(0)
        ELSE LET n == CHOOSE n \in OriginsWithRoute(B[10]) :
                          \A m \in OriginsWithRoute(B[10]) : n <= m
             IN  \E i \in DOMAIN fr_rows :
                    /\ fr_rows[i].origin = CascadeOrigins[n]
                    /\ fr_rows[i].destination = B[10]
                    /\ K12.x = fr_rows[i].gross_wt
                    /\ K13.x = Int2Num(fr_rows[i].confirmed)

Matches(k) == Pos(k) > 0

\* C9: with all seven inputs filled, the status is empty exactly when the key
\* matches in both catalogs and a route exists from all three origins.
C9_EmptyStatusOnlyWhenAllResolve ==
    (Built /\ K6) =>
        ( A21 = "" <=>
            Matches(K7) /\ Matches(K8) /\ Matches(K9) /\ Matches(K10) /\ Matches(K11) )

\* every computed cell of the Quote sheet
QuoteCells ==
    {K5, K7, K8, K9, K10, K11, K12, K13, B11, B23, B24}
    \cup {ProductCode(row) : row \in ResultRows}
    \cup {FobPrice(row) : row \in ResultRows}
    \cup {DiscFob(row) : row \in ResultRows}
    \cup {FreightPerContainer(row) : row \in ResultRows}
    \cup {UnitsPerContainer(row) : row \in ResultRows}
    \cup {FreightPerUnit(row) : row \in ResultRows}
    \cup {TotalCost(row) : row \in ResultRows}
    \cup {TransitTime(row) : row \in ResultRows}

\* C10: with all inputs filled and a key that matches no row of either
\* catalog, every origin row shows '-' for product code, FOB, discounted FOB
\* and units per container, the status is 'No results found with the query
\* inputs.' whatever routes exist, and no cell holds an error value.
C10_NoMatchDegrades ==
    (Built /\ K6 /\ ~Matches(K7) /\ ~Matches(K8)) =>
        /\ \A row \in ResultRows :
              /\ ProductCode(row) = Dash
              /\ FobPrice(row) = Dash
              /\ DiscFob(row) = Dash
              /\ UnitsPerContainer(row) = Dash
        /\ A21 = "No results found with the query inputs."
        /\ \A c \in QuoteCells : ~IsErr(c)

\* no product matches although both catalogs hold products, and a route exists
C10_Witness ==
    /\ Built
    /\ K6
    /\ ~Matches(K7)
    /\ ~Matches(K8)
    /\ in_products # <<>>
    /\ sl_products # <<>>
    /\ Matches(K9)
    /\ IsNum(FreightPerContainer(17))
    /\ FreightPerUnit(17) = Dash

-----------------------------------------------------------------------------
(* Properties of the catalogs and of the unit economics *)

\* the rows of the price-list sheet read for the catalog of a result row
SourceRows(row) == IF Prefix(row) = "IN" THEN price_wb.IN_GB ELSE price_wb.SL_GB

\* the source rows that carry a product number and a description
Listed(rows) == {i \in DOMAIN rows : rows[i].prod_no # <<>> /\ rows[i].desc # <<>>}

\* the listed source rows whose description yields the key asked for
SourceHits(row) ==
    {i \in Listed(SourceRows(row)) :
        make_key(parse_description(SourceRows(row)[i].desc)) = K4}

\* the first of them in sheet order
FirstHit(row) == CHOOSE i \in SourceHits(row) : \A j \in SourceHits(row) : i <= j

\* the full description shown for the catalog of a result row
DescriptionCell(row) == IF Prefix(row) = "IN" THEN B23 ELSE B24

\* C11: when several rows of one origin's catalog share the key asked for, the
\* product code, the description, the FOB and the units per container shown
\* for that origin are those of the first such row of the source sheet; the
\* catalog holds one product per listed source row, in sheet order.
C11_FirstProductOfKeyWins ==
    Built =>
        /\ \A row \in ResultRows :
              /\ Len(Sheet(Prefix(row))) = Cardinality(Listed(SourceRows(row)))
              /\ \A i, j \in DOMAIN Sheet(Prefix(row)) :
                    i < j =>
                        \E a, b \in Listed(SourceRows(row)) :
                            /\ a < b
                            /\ SourceRows(row)[a].prod_no = Sheet(Prefix(row))[i].product_no
                            /\ SourceRows(row)[b].prod_no = Sheet(Prefix(row))[j].product_no
        /\ K6 =>
              \A row \in ResultRows :
                  Cardinality(SourceHits(row)) >= 2 =>
                      LET first == SourceRows(row)[FirstHit(row)] IN
                      /\ ProductCode(row) = Txt(first.prod_no)
                      /\ DescriptionCell(row) = Txt(first.desc)
                      /\ Pos(K5) > 0 =>
                            /\ FobPrice(row) = NumV(first.fob[Pos(K5)])
                            /\ UnitsPerContainer(row) = NumV(first.pcs[Pos(K5)])

\* two India rows share the key asked for and the Cochin row shows the first
C11_Witness ==
    /\ Built
    /\ K6
    /\ Cardinality(SourceHits(17)) = 2
    /\ Pos(K5) > 0
    /\ ProductCode(17) = Txt(<<"G", "1">>)
    /\ FobPrice(17) = NumV(Num(2, 1))
    /\ UnitsPerContainer(17) = NumV(Num(8000, 1))

\* the origin of a result row
RowOrigin(row) == CascadeOrigins[row - 16]

\* the route from the origin of a result row to the destination asked for
HasRoute(row) == <<RowOrigin(row), B[10]>> \in DOMAIN freight
RouteOf(row) == freight[<<RowOrigin(row), B[10]>>]

\* the key asked for is the key of a listed row of the row's catalog
Matched(row) == SourceHits(row) # {}

\* the tier the weight w resolves to: the position of the largest tier value
\* that is at most w, 0 when there is none
TierOf(w) ==
    IF TiersUpTo(w) = {} THEN 0
    ELSE CHOOSE i \in TiersUpTo(w) : \A j \in TiersUpTo(w) : j <= i

\* the tier of the quote
Tier == TierOf(K12.x)

\* the price and the unit count of the product used for a result row, at the
\* tier of the quote (for a matched row and a resolved tier)
UsedFob(row) == SourceRows(row)[FirstHit(row)].fob[Tier]
UsedPcs(row) == SourceRows(row)[FirstHit(row)].pcs[Tier]

\* the freight per container of a result row that has a route
ContainerFreight(row) == NumMul(RouteOf(row).all_in_usd, NumNorm(10605, 10000))

\* the product, the tier, the price and a positive unit count are all there
FullyPriced(row) ==
    /\ Matched(row)
    /\ Tier > 0
    /\ ~IsNone(UsedFob(row))
    /\ ~IsNone(UsedPcs(row))
    /\ NumGT(UsedPcs(row), Int2Num(0))

\* C12: for an origin whose product matches, whose route exists, with a
\* resolved tier, a price and a positive unit count: discounted FOB is
\* fob * (1 - discount), freight per container is all_in_usd * 1.0605, freight
\* per unit is freight per container / pcs, and total cost per unit is
\* discounted FOB + freight per unit.
C12_UnitEconomics ==
    (Built /\ K6) =>
        \A row \in ResultRows :
            (FullyPriced(row) /\ HasRoute(row)) =>
                LET disc == NumMul(UsedFob(row), NumSub(Int2Num(1), B[12]))
                    fpu == NumDiv(ContainerFreight(row), UsedPcs(row))
                IN  /\ DiscFob(row) = NumV(disc)
                    /\ FreightPerContainer(row) = NumV(ContainerFreight(row))
                    /\ FreightPerUnit(row) = NumV(fpu)
                    /\ TotalCost(row) = NumV(NumAdd(disc, fpu))

\* fob 2 at a discount of one half and 8000 units on the Cochin route of 1000:
\* 1, 1060.5, 0.1325625 and 1.1325625
C12_Witness ==
    /\ Built
    /\ K6
    /\ FullyPriced(17)
    /\ HasRoute(17)
    /\ B[12] = Num(1, 2)
    /\ DiscFob(17) = NumV(Num(1, 1))
    /\ FreightPerContainer(17) = NumV(Num(2121, 2))
    /\ FreightPerUnit(17) = NumV(Num(2121, 16000))
    /\ TotalCost(17) = NumV(Num(18121, 16000))

\* C13: freight per unit is freight per container / pcs when pcs > 0 and the
\* route exists, and '-' in every other case (pcs absent, zero or negative,
\* product unmatched, tier unresolved, route missing); never an error value.
C13_FreightPerUnitNeedsPositiveUnits ==
    (Built /\ K6) =>
        \A row \in ResultRows :
            LET available ==
                    /\ Matched(row)
                    /\ Tier > 0
                    /\ HasRoute(row)
                    /\ ~IsNone(UsedPcs(row))
                    /\ NumGT(UsedPcs(row), Int2Num(0))
            IN  /\ ~IsErr(FreightPerUnit(row))
                /\ IF available
                   THEN FreightPerUnit(row)
                            = NumV(NumDiv(ContainerFreight(row), UsedPcs(row)))
                   ELSE FreightPerUnit(row) = Dash

\* C14: with no FOB value at the resolved tier of the matched product, the
\* discounted FOB and the total cost per unit are no numbers; the total cost
\* per unit is a number only when discounted FOB and freight per unit are.
C14_MissingFobIsUnavailable ==
    (Built /\ K6) =>
        \A row \in ResultRows :
            /\ (Matched(row) /\ Tier > 0 /\ IsNone(UsedFob(row))) =>
                  ~IsNum(DiscFob(row)) /\ ~IsNum(TotalCost(row))
            /\ IsNum(TotalCost(row)) =>
                  IsNum(DiscFob(row)) /\ IsNum(FreightPerUnit(row))

-----------------------------------------------------------------------------
(* Properties of the tonnage warning and of the Freight table *)

\* the Freight row whose weight the quote uses: that of the first of Cochin,
\* Tuticorin and Colombo with a route to the destination asked for, 0 if none
UsedRoute ==
    IF Pos(K9) > 0 THEN Pos(K9)
    ELSE IF Pos(K10) > 0 THEN Pos(K10)
    ELSE Pos(K11)

WarningText ==
    "WARNING: No confirmed weight data for this destination. Using default 23 MT. Verify before quoting."

\* C15: with a destination selected, the tonnage warning is displayed when the
\* weight used is that of a destination read_tonnage put on its defaults
\* list, and is not displayed when the weight used is that of a destination
\* read_tonnage matched with a tonnage entry.
C15_WarningIffUnconfirmed ==
    (Built /\ B[10] # <<>> /\ UsedRoute > 0) =>
        LET d == fr_rows[UsedRoute].destination IN
        /\ d \in Range(defaults) =>
              A13 = WarningText /\ fr_rows[UsedRoute].gross_wt = Num(23, 1)
        /\ (\E i \in DOMAIN matched : matched[i].dest = d) => A13 = ""

\* a destination on the defaults list, reached from Colombo only, is selected
\* and the warning is displayed
C15_Witness ==
    /\ Built
    /\ B[10] # <<>>
    /\ Pos(K9) = 0
    /\ Pos(K10) = 0
    /\ Pos(K11) > 0
    /\ fr_rows[UsedRoute].destination \in Range(defaults)
    /\ matched # <<>>
    /\ A13 = WarningText

-----------------------------------------------------------------------------
(* test_quotation_tool.py: simulate, the test's own computation of a quote *)

\* ORIGINS: the origin, the product data and the prefix of each result
ORIGINS ==
    << [origin |-> o_Cochin, prefix |-> "IN"],
       [origin |-> o_Tuticorin, prefix |-> "IN"],
       [origin |-> o_Colombo, prefix |-> "SL"] >>

\* lookup_key
lookup_key ==
    B[4] \o <<"|">> \o B[5] \o <<"|">> \o B[6] \o <<"|">> \o B[7] \o <<"|">>
    \o B[8] \o <<"|">> \o B[9]

\* a value of simulate as a cell shows it: None is '-'
OrDash(present, v) == IF present THEN v ELSE Dash

\* prod_match: the first data row whose key equals lookup_key, 0 for None
prod_match(o) ==
    Leftmost({i \in DOMAIN Sheet(ORIGINS[o].prefix) :
                 Sheet(ORIGINS[o].prefix)[i].key = lookup_key})

\* fr_match: the first Freight row whose key equals origin|destination, 0 for
\* None
fr_match(o) ==
    Leftmost({i \in DOMAIN fr_rows :
                 fr_rows[i].key = ORIGINS[o].origin \o <<"|">> \o B[10]})

\* wt_idx: the last tier that is at most the gross weight of the origin's own
\* route, 0 for None
wt_idx(o) ==
    IF fr_match(o) = 0 THEN 0
    ELSE LET below == {i \in DOMAIN WEIGHT_TIERS :
                          NumLE(WEIGHT_TIERS[i], fr_rows[fr_match(o)].gross_wt)}
         IN  IF below = {} THEN 0 ELSE CHOOSE i \in below : \A j \in below : j <= i

\* the results of simulate for the o-th origin
simulate(o) ==
    LET found == prod_match(o) # 0 /\ wt_idx(o) # 0
        product == Sheet(ORIGINS[o].prefix)[prod_match(o)]
        pcs == IF found THEN product.pcs[wt_idx(o)] ELSE None
        fob == IF found THEN product.fob[wt_idx(o)] ELSE None
        routed == fr_match(o) # 0
        freight_total ==
            IF routed THEN NumMul(fr_rows[fr_match(o)].all_in_usd, Multiplier) ELSE None
        disc_fob ==
            IF IsNone(fob) THEN None ELSE NumMul(fob, NumSub(Int2Num(1), Num(3, 10)))
        freight_per_unit ==
            IF routed /\ ~IsNone(pcs) /\ NumGT(pcs, Int2Num(0))
            THEN NumDiv(freight_total, pcs) ELSE None
        total_cost ==
            IF ~IsNone(disc_fob) /\ ~IsNone(freight_per_unit)
            THEN NumAdd(disc_fob, freight_per_unit) ELSE None
    IN  [product_code |-> OrDash(found, Txt(product.product_no)),
         fob |-> OrDash(~IsNone(fob), NumV(fob)),
         disc_fob |-> OrDash(~IsNone(disc_fob), NumV(disc_fob)),
         freight_container |-> OrDash(routed, NumV(freight_total)),
         units_container |-> OrDash(~IsNone(pcs), NumV(pcs)),
         freight_per_unit |-> OrDash(~IsNone(freight_per_unit), NumV(freight_per_unit)),
         total_cost |-> OrDash(~IsNone(total_cost), NumV(total_cost)),
         transit_days |-> OrDash(routed, NumV(Int2Num(fr_rows[fr_match(o)].transit_days))),
         tier |-> OrDash(wt_idx(o) # 0, NumV(WEIGHT_TIERS[wt_idx(o)]))]

\* the same results as the Quote sheet shows them in the row of the o-th origin
QuoteRow(o) ==
    [product_code |-> ProductCode(16 + o),
     fob |-> FobPrice(16 + o),
     disc_fob |-> DiscFob(16 + o),
     freight_container |-> FreightPerContainer(16 + o),
     units_container |-> UnitsPerContainer(16 + o),
     freight_per_unit |-> FreightPerUnit(16 + o),
     total_cost |-> TotalCost(16 + o),
     transit_days |-> TransitTime(16 + o),
     tier |-> OrDash(Pos(K5) # 0, NumV(WEIGHT_TIERS[Pos(K5)]))]

\* C16: for every combination of the six attribute values and a destination,
\* at the default discount of 30%, simulate gives for each of the three
\* origins the product code, FOB, discounted FOB, freight per container, units
\* per container, freight per unit, total cost, transit days and weight tier
\* that the Quote sheet shows, None standing for '-'.
C16_SimulateAgreesWithQuote ==
    (Built /\ K6 /\ B[12] = Num(3, 10)) =>
        \A o \in 1..3 : simulate(o) = QuoteRow(o)

\* C17: every row of the Freight table whose Weight_Confirmed flag is 0 has
\* Gross_Weight_MT exactly 23, and the flag is always 0 or 1.
C17_UnconfirmedRowsCarryDefault ==
    Built =>
        \A i \in DOMAIN fr_rows :
            /\ fr_rows[i].confirmed \in {0, 1}
            /\ fr_rows[i].confirmed = 0 => fr_rows[i].gross_wt = Num(23, 1)

\* an unconfirmed row next to a confirmed row of another weight
C17_Witness ==
    /\ Built
    /\ \E i, j \in DOMAIN fr_rows :
          /\ fr_rows[i].confirmed = 0
          /\ fr_rows[i].gross_wt = Num(23, 1)
          /\ fr_rows[j].confirmed = 1
          /\ fr_rows[j].gross_wt # Num(23, 1)

\* C18: every route row written to the Freight table has a gross weight that
\* is present and greater than 0, for any tonnage rows read.
C18_FreightWeightsArePositive ==
    Built =>
        \A i \in DOMAIN fr_rows :
            /\ ~IsNone(fr_rows[i].gross_wt)
            /\ NumGT(fr_rows[i].gross_wt, Int2Num(0))

-----------------------------------------------------------------------------
(* Properties of the separation of the two catalogs *)

\* the message of A21 for a key that only the other catalog lists
NotAvailableFrom(row) ==
    IF row = 19 THEN "Product not available from Sri Lanka."
    ELSE "Product not available from India."

\* C19: the Cochin and Tuticorin rows take product code, FOB and units from
\* the listed rows of IN-GB only and the Colombo row from those of SL-GB only:
\* a row whose own sheet does not list the key asked for shows unavailable
\* product fields, whatever the other sheet lists, and when the other sheet
\* does list it the status says the product is not available from the row's
\* origin country; a row whose own sheet lists the key shows that sheet's
\* product.
C19_CatalogsAreNotMerged ==
    (Built /\ K6) =>
        \A row \in ResultRows :
            IF SourceHits(row) = {}
            THEN /\ ProductCode(row) = Dash
                 /\ FobPrice(row) = Dash
                 /\ DiscFob(row) = Dash
                 /\ UnitsPerContainer(row) = Dash
                 /\ (\E other \in ResultRows : SourceHits(other) # {}) =>
                        A21 = NotAvailableFrom(row)
            ELSE LET own == SourceRows(row)[FirstHit(row)] IN
                 /\ ProductCode(row) = Txt(own.prod_no)
                 /\ Pos(K5) > 0 =>
                       /\ FobPrice(row) = NumV(own.fob[Pos(K5)])
                       /\ UnitsPerContainer(row) = NumV(own.pcs[Pos(K5)])

\* the key asked for is listed in SL-GB only: the Colombo row shows the Sri
\* Lanka product with its price, the Cochin and Tuticorin rows show none
C19_Witness ==
    /\ Built
    /\ K6
    /\ price_wb.IN_GB # <<>>
    /\ SourceHits(17) = {}
    /\ SourceHits(19) # {}
    /\ ProductCode(19) = Txt(<<"S", "1">>)
    /\ IsNum(FobPrice(19))
    /\ ProductCode(17) = Dash
    /\ ProductCode(18) = Dash
    /\ A21 = "Product not available from India."

-----------------------------------------------------------------------------
(* Properties of the start-up *)

\* the run is still in the start-up code, or has ended there
InStartup == pc \in {"find_file", "select_file", "exit"}

\* no table has been read
NothingRead ==
    /\ in_products = <<>>
    /\ sl_products = <<>>
    /\ freight = EmptyMap
    /\ raw = EmptyMap
    /\ fr_rows = <<>>

\* the patterns without a candidate
NoCandidate == {i \in DOMAIN matches : matches[i] = 0}

\* C20 as written: a pattern with no candidate or with more than one keeps
\* the run from ever reading a table.
C20_MiscountIsFatal ==
    (\E i \in DOMAIN matches : matches[i] # 1) => InStartup /\ NothingRead

\* C20 as amended: a pattern with no candidate keeps the run from ever reading
\* a table, and the run ends at the find_file call of the first such pattern
\* and nowhere else; a pattern with more than one candidate is prompted for,
\* every file chosen is one of the candidates listed, and with a candidate
\* for every pattern the run never ends in the start-up code.
C20_OnlyNoCandidateIsFatal ==
    /\ NoCandidate # {} =>
          /\ InStartup
          /\ NothingRead
          /\ \A z \in NoCandidate : Len(files) < z
    /\ pc = "exit" <=>
          /\ Len(files) < Len(Patterns)
          /\ matches[Len(files) + 1] = 0
          /\ Len(files) + 1 \in NoCandidate
          /\ pc # "find_file"
    /\ pc = "select_file" => matches[Len(files) + 1] > 1
    /\ \A i \in DOMAIN files : 1 <= files[i] /\ files[i] <= matches[i]
    /\ ~InStartup => Len(files) = Len(Patterns)

\* the second of two rate sheets was chosen at the prompt and the run ended
\* at the next call, which found no tonnage file
C20_Witness ==
    /\ pc = "exit"
    /\ matches[1] = 2
    /\ matches[2] = 0
    /\ files = <<2>>
    /\ NothingRead

-----------------------------------------------------------------------------
(* Properties of the order of the readers *)

\* the destinations of the route map
RouteDestinations == {freight[k].destination : k \in DOMAIN freight}

\* the route reader has completed: the route map is the one of the two sheets
RoutesRead ==
    freight = RouteMap(ReadRates(rate_sheet, EmptyMap), ReadTransit(transit_sheet, EmptyMap))

\* the tonnage matcher has completed: every survey row is read and every
\* destination it was given is resolved
TonnageMatched ==
    /\ row_idx > MaxRow
    /\ dest_idx > Len(freight_destinations)
    /\ DOMAIN tonnage = Range(freight_destinations)

\* C21: the tonnage matcher runs only after the route reader has completed and
\* with every destination of the route map; the workbook is built only after
\* both have completed; so every route written by build_tool has its
\* destination in the tonnage map and carries the weight and the flag stored
\* there, never those of build_tool's own fallback.
C21_ReadersRunInOrder ==
    /\ [](pc = "read_tonnage" =>
            RoutesRead /\ Range(freight_destinations) = RouteDestinations)
    /\ [](pc \in {"build_tool", "quote"} =>
            /\ RoutesRead
            /\ TonnageMatched
            /\ RouteDestinations \subseteq DOMAIN tonnage)
    /\ [](Built =>
            \A i \in DOMAIN fr_rows :
                /\ fr_rows[i].destination \in DOMAIN tonnage
                /\ fr_rows[i].gross_wt = tonnage[fr_rows[i].destination].gross
                /\ fr_rows[i].confirmed = 1 <=> tonnage[fr_rows[i].destination].confirmed)
    /\ [][/\ (pc' = "read_tonnage" /\ pc # "read_tonnage") => pc = "sort_destinations"
          /\ (pc' = "sort_destinations" /\ pc # "sort_destinations") => pc = "read_freight"
          /\ (pc' = "build_tool" /\ pc # "build_tool") => pc = "read_tonnage"
          /\ (pc' = "quote" /\ pc # "quote") => pc = "build_tool"]_vars

\* a workbook with routes from India and from Sri Lanka to two destinations,
\* one matched and one that read_tonnage put on its defaults list
C21_Witness ==
    /\ Built
    /\ \E i, j \in DOMAIN fr_rows :
          /\ fr_rows[i].country = s_India
          /\ fr_rows[j].country = s_Sri_Lanka
          /\ fr_rows[i].destination # fr_rows[j].destination
          /\ fr_rows[j].destination \in Range(defaults)
          /\ fr_rows[j].confirmed = 0
          /\ fr_rows[i].confirmed = 1

-----------------------------------------------------------------------------
(* Properties of the tonnage rows without a gross weight *)

\* the number of 'Missing gross weight' issues of a list of issues
MissingCount(issues) == Cardinality({i \in DOMAIN issues : issues[i].kind = "missing"})

\* the names under which the rows with a weight are stored
WeighedKeys == {Lower(PortStr(tonnage_sheet[i])) : i \in WeighedRows}

\* the entry a destination is looked up under: that of the override table, or
\* its city
LookupKey(dest) ==
    IF Lower(dest) \in DOMAIN OVERRIDES THEN OVERRIDES[Lower(dest)] ELSE CityToken(dest)

\* the row loop of read_tonnage is over
RowsRead == pc \in {"read_tonnage", "build_tool", "quote"} /\ row_idx > MaxRow

\* C22: a 40HC row with a port and no gross weight appends exactly one
\* 'Missing gross weight' issue, as the last issue of the row, and leaves the
\* entry table unchanged; once the rows are read the table holds exactly the
\* names of the rows with a weight, and a destination looked up under a name
\* whose rows all lack a weight gets the default weight, unconfirmed.
C22_MissingWeightIsLoggedAndDropped ==
    /\ [][(/\ pc = "read_tonnage"
           /\ row_idx <= MaxRow
           /\ row_idx' = row_idx + 1
           /\ IsRead(SheetRow(row_idx))
           /\ IsNone(SheetRow(row_idx).gross))
          => /\ raw' = raw
             /\ MissingCount(quality_issues') = MissingCount(quality_issues) + 1
             /\ Len(quality_issues') > Len(quality_issues)
             /\ quality_issues'[Len(quality_issues')].kind = "missing"
             /\ quality_issues'[Len(quality_issues')].row = row_idx
             /\ SubSeq(quality_issues', 1, Len(quality_issues)) = quality_issues]_vars
    /\ [](RowsRead =>
            /\ DOMAIN raw = WeighedKeys
            /\ MissingCount(quality_issues) =
                  Cardinality({i \in DOMAIN tonnage_sheet :
                                  IsRead(tonnage_sheet[i]) /\ IsNone(tonnage_sheet[i].gross)})
            /\ \A d \in DOMAIN tonnage :
                  LookupKey(d) \notin WeighedKeys =>
                      tonnage[d] = [gross |-> Num(23, 1), confirmed |-> FALSE])

\* the only Hamburg row has no weight: one issue, no entry, and 'Hamburg, DE'
\* gets the unconfirmed default
C22_Witness ==
    /\ RowsRead
    /\ \E i \in DOMAIN tonnage_sheet :
          /\ IsRead(tonnage_sheet[i])
          /\ IsNone(tonnage_sheet[i].gross)
          /\ Lower(PortStr(tonnage_sheet[i])) = s_hamburg
    /\ s_hamburg \notin DOMAIN raw
    /\ MissingCount(quality_issues) = 1
    /\ d_Hamburg_DE \in DOMAIN tonnage
    /\ tonnage[d_Hamburg_DE] = [gross |-> Num(23, 1), confirmed |-> FALSE]
    /\ d_Hamburg_DE \in Range(defaults)

-----------------------------------------------------------------------------
(* Properties of the route reader *)

\* read_freight has returned
FreightRead == pc \in {"sort_destinations", "read_tonnage", "build_tool", "quote"}

\* the RATE SHEET rows that carry an origin, a destination and a rate
RatedRows ==
    {i \in DOMAIN rate_sheet :
        /\ rate_sheet[i].origin # <<>>
        /\ rate_sheet[i].dest # <<>>
        /\ ~IsNone(rate_sheet[i].all_in)}

\* the trimmed pair of a RATE SHEET row
PairOf(i) == <<Strip(rate_sheet[i].origin), Strip(rate_sheet[i].dest)>>

\* C23: the route map holds no record whose trimmed origin equals its trimmed
\* destination; its records are those of the trimmed pairs of the rated rows
\* with different ends, one per pair, also as rows of the Freight table; the
\* origin and the destination of a record are those of its key.
C23_RouteMapIdentity ==
    /\ FreightRead =>
          /\ DOMAIN freight = {PairOf(i) : i \in {j \in RatedRows : PairOf(j)[1] # PairOf(j)[2]}}
          /\ \A k \in DOMAIN freight :
                /\ freight[k].origin # freight[k].destination
                /\ Strip(freight[k].origin) = freight[k].origin
                /\ Strip(freight[k].destination) = freight[k].destination
                /\ freight[k].origin = k[1]
                /\ freight[k].destination = k[2]
    /\ Built =>
          /\ Len(fr_rows) = Cardinality(DOMAIN freight)
          /\ \A i, j \in DOMAIN fr_rows :
                (fr_rows[i].origin = fr_rows[j].origin
                    /\ fr_rows[i].destination = fr_rows[j].destination) => i = j
          /\ \A i \in DOMAIN fr_rows :
                /\ fr_rows[i].origin # fr_rows[i].destination
                /\ fr_rows[i].key = fr_rows[i].origin \o <<"|">> \o fr_rows[i].destination

\* a sheet with the route from Hamburg to Hamburg, one cell padded, and a
\* route from Colombo: the workbook holds the route from Colombo only
C23_Witness ==
    /\ Built
    /\ Len(rate_sheet) = 2
    /\ Cardinality(RatedRows) = 2
    /\ rate_sheet[1].origin # rate_sheet[1].dest
    /\ PairOf(1)[1] = PairOf(1)[2]
    /\ Len(fr_rows) = 1
    /\ fr_rows[1].origin = o_Colombo

\* the Transit Time rows of the pair k whose description holds a digit
TransitHits(k) ==
    {i \in DOMAIN transit_sheet :
        /\ transit_sheet[i].receipt # <<>>
        /\ transit_sheet[i].delivery # <<>>
        /\ Strip(transit_sheet[i].receipt) = k[1]
        /\ Strip(transit_sheet[i].delivery) = k[2]
        /\ \E c \in DOMAIN transit_sheet[i].tt : IsDigit(transit_sheet[i].tt[c])}

\* the number written by the first run of digits of a description
FirstNumber(tt) ==
    LET first == CHOOSE c \in DOMAIN tt :
                     IsDigit(tt[c]) /\ \A b \in 1..(c - 1) : ~IsDigit(tt[b])
    IN  DigitRun(SubSeq(tt, first, Len(tt)), 0)

\* C24: the transit days of a route are the first integer of the description
\* of the first Transit Time row, in sheet order, of its own pair that holds a
\* digit, and 0 when there is no such row; the Freight table carries the same
\* number.
C24_TransitDays ==
    /\ FreightRead =>
          \A k \in DOMAIN freight :
              IF TransitHits(k) = {} THEN freight[k].transit_days = 0
              ELSE LET first == CHOOSE i \in TransitHits(k) : \A j \in TransitHits(k) : i <= j
                   IN  freight[k].transit_days = FirstNumber(transit_sheet[first].tt)
    /\ Built =>
          \A i \in DOMAIN fr_rows :
              fr_rows[i].transit_days = freight[<<fr_rows[i].origin, fr_rows[i].destination>>].transit_days

\* the route from Cochin to Hamburg with three rows of its pair: the first has
\* no digit, the second says 46, the third says 12
C24_Witness ==
    /\ Built
    /\ <<o_Cochin, d_Hamburg_DE>> \in DOMAIN freight
    /\ Len(transit_sheet) = 3
    /\ TransitHits(<<o_Cochin, d_Hamburg_DE>>) = {2, 3}
    /\ Strip(transit_sheet[1].receipt) = o_Cochin
    /\ Strip(transit_sheet[1].delivery) = d_Hamburg_DE
    /\ FirstNumber(transit_sheet[3].tt) = 12
    /\ freight[<<o_Cochin, d_Hamburg_DE>>].transit_days = 46

-----------------------------------------------------------------------------
(* Properties of the defect detection *)

\* port 'Germany' with country 'Hamburg', in any case, after trimming
SwappedRow(i) ==
    /\ Lower(Strip(tonnage_sheet[i].port)) = <<"g", "e", "r", "m", "a", "n", "y">>
    /\ Lower(Strip(tonnage_sheet[i].country)) = <<"h", "a", "m", "b", "u", "r", "g">>

\* the name a row is stored under: 'hamburg' for the swapped row, its own
\* trimmed and lowercased port name for every other row
StoredKey(i) ==
    IF SwappedRow(i) THEN <<"h", "a", "m", "b", "u", "r", "g">>
    ELSE Lower(Strip(tonnage_sheet[i].port))

\* an issue of the kind k is logged for sheet row i
Logged(k, i) ==
    \E q \in DOMAIN quality_issues :
        quality_issues[q].kind = k /\ quality_issues[q].row = i + 2

\* C25: once the rows are read, the swapped row is stored under 'hamburg' and
\* shares that entry with the genuine Hamburg rows, the entry holding the
\* highest of their weights; a row with a misspelt, padded or annotated name is
\* stored under its own trimmed, lowercased name; each of these defects is
\* logged.
C25_OnlyTheSwapIsCorrected ==
    RowsRead =>
        /\ DOMAIN raw = {StoredKey(i) : i \in WeighedRows}
        /\ \A k \in DOMAIN raw :
              /\ IsMaxWeight(raw[k].gross, {i \in WeighedRows : StoredKey(i) = k})
              /\ raw[k].row - 2 \in WeighedRows
              /\ StoredKey(raw[k].row - 2) = k
              /\ Lower(raw[k].name) = k
        /\ \A i \in WeighedRows :
              /\ SwappedRow(i) => Logged("swapped", i)
              /\ (~SwappedRow(i) /\ StoredKey(i) \in known_misspellings) =>
                    Logged("misspelling", i)
              /\ RStrip(tonnage_sheet[i].port) # tonnage_sheet[i].port =>
                    Logged("trailing", i)
              /\ (Contains(tonnage_sheet[i].port, <<"(">>)
                    \/ Contains(tonnage_sheet[i].port, <<"*", "*">>)) =>
                    Logged("annotation", i)

\* a genuine Hamburg row of 20 MT followed by the swapped row of 25 MT: one
\* entry 'hamburg' of 25 MT, none for 'germany', and 'Hamburg, DE' confirmed
\* at 25 MT while 'Yokohama, JP' is on the defaults
C25_Witness ==
    /\ Built
    /\ Len(tonnage_sheet) = 2
    /\ ~SwappedRow(1)
    /\ SwappedRow(2)
    /\ DOMAIN raw = {<<"h", "a", "m", "b", "u", "r", "g">>}
    /\ raw[<<"h", "a", "m", "b", "u", "r", "g">>].gross = Num(25, 1)
    /\ raw[<<"h", "a", "m", "b", "u", "r", "g">>].row = 4
    /\ tonnage[d_Hamburg_DE] = [gross |-> Num(25, 1), confirmed |-> TRUE]
    /\ d_Yokohama_JP \in Range(defaults)

-----------------------------------------------------------------------------
(* Properties of parse_description *)

\* the price list has been read
PricesRead == pc \notin {"find_file", "select_file", "exit", "read_price_list"}

\* the text t stands in d from position i on, in any case
StandsAt(d, i, t) ==
    /\ i >= 1
    /\ i + Len(t) - 1 <= Len(d)
    /\ Upper(SubSeq(d, i, i + Len(t) - 1)) = t

\* a letter, a digit or an underscore stands at position i of d
WordCharAt(d, i) ==
    /\ i >= 1
    /\ i <= Len(d)
    /\ \/ \E c \in 1..26 : d[i] = UpperChars[c] \/ d[i] = LowerChars[c]
       \/ IsDigit(d[i])
       \/ d[i] = "_"

\* d holds the words NO and HOLES as a phrase, in any case: NO begins a word,
\* HOLES ends one, and nothing but white space stands between them
HoldsNoHolesPhrase(d) ==
    \E i \in 1..Len(d) :
        /\ StandsAt(d, i, <<"N", "O">>)
        /\ ~WordCharAt(d, i - 1)
        /\ \E j \in (i + 2)..Len(d) :
              /\ StandsAt(d, j, <<"H", "O", "L", "E", "S">>)
              /\ ~WordCharAt(d, j + 5)
              /\ \A b \in (i + 2)..(j - 1) : d[b] = " "

\* d holds HOLES, in any case
HoldsHoles(d) == \E i \in 1..Len(d) : StandsAt(d, i, <<"H", "O", "L", "E", "S">>)

\* C26: the holes field of a product is 'NO HOLES' when its description holds
\* the phrase NO HOLES, 'HOLES' when it holds HOLES without that phrase and
\* 'N/A' otherwise, whatever the other five fields are.
C26_NoHolesBeatsHoles ==
    PricesRead =>
        \A i \in DOMAIN in_products :
            LET d == in_products[i].description IN
            in_products[i].holes =
                IF HoldsNoHolesPhrase(d) THEN <<"N", "O", " ", "H", "O", "L", "E", "S">>
                ELSE IF HoldsHoles(d) THEN <<"H", "O", "L", "E", "S">>
                ELSE <<"N", "/", "A">>

\* a description with the phrase in lower case, two spaces apart, and BSU
C26_Witness ==
    /\ PricesRead
    /\ Len(in_products) = 1
    /\ in_products[1].description = desc_2
    /\ HoldsNoHolesPhrase(desc_2)
    /\ HoldsHoles(desc_2)
    /\ in_products[1].holes = <<"N", "O", " ", "H", "O", "L", "E", "S">>
    /\ in_products[1].bsu = <<"B", "S", "U">>

-----------------------------------------------------------------------------
(* Properties of the quote with blank inputs *)

\* one of the seven inputs B4..B10 is blank
SomeInputBlank == \E r \in 4..10 : B[r] = <<>>

\* the cells B..I of a result row
ResultCells(row) ==
    { ProductCode(row), FobPrice(row), DiscFob(row), FreightPerContainer(row),
      UnitsPerContainer(row), FreightPerUnit(row), TotalCost(row), TransitTime(row) }

\* C27: with at least one of the seven inputs blank the status asks for the
\* inputs and every result cell of the three origin rows and both description
\* cells are blank, whatever the products, the routes and the weight are.
C27_BlankInputBlanksTheQuote ==
    (Built /\ SomeInputBlank) =>
        /\ A21 = "Please fill in all input fields above."
        /\ \A row \in ResultRows : ResultCells(row) = {Blank}
        /\ B23 = Blank
        /\ B24 = Blank

\* the six attributes are those of a product of both catalogs and there are
\* routes, only the destination is blank
C27_Witness ==
    /\ Built
    /\ B[10] = <<>>
    /\ \A r \in 4..9 : B[r] # <<>>
    /\ Pos(K7) > 0
    /\ Pos(K8) > 0
    /\ Len(fr_rows) >= 2
    /\ ProductCode(17) = Blank
    /\ B23 = Blank
    /\ A21 = "Please fill in all input fields above."

-----------------------------------------------------------------------------
(* Properties of the shared weight of a quote *)

\* the Freight row of the route from the origin of a result row to the
\* destination asked for
OwnRouteRow(row) ==
    CHOOSE i \in DOMAIN fr_rows :
        fr_rows[i].origin = RowOrigin(row) /\ fr_rows[i].destination = B[10]

\* C28: with a destination selected, for each of Cochin, Tuticorin and Colombo
\* that has a route to it, the weight and the confirmed flag of the quote are
\* those of that origin's own Freight row, and the tier index of the quote is
\* the tier that row's weight resolves to.
C28_SharedWeightIsEveryOriginsOwn ==
    (Built /\ B[10] # <<>>) =>
        LET weight == K12
            flag == K13
            tier == Pos(K5)
        IN  \A row \in ResultRows :
                HasRoute(row) =>
                    /\ \E i \in DOMAIN fr_rows :
                          /\ fr_rows[i].origin = RowOrigin(row)
                          /\ fr_rows[i].destination = B[10]
                    /\ LET own == fr_rows[OwnRouteRow(row)]
                       IN  /\ weight = NumV(own.gross_wt)
                           /\ flag = NumV(Int2Num(own.confirmed))
                           /\ tier = TierOf(own.gross_wt)

\* Tuticorin and Colombo, not Cochin, have a route to the destination asked
\* for, whose weight is a confirmed 25 MT
C28_Witness ==
    /\ Built
    /\ B[10] # <<>>
    /\ ~HasRoute(17)
    /\ HasRoute(18)
    /\ HasRoute(19)
    /\ OwnRouteRow(18) # OwnRouteRow(19)
    /\ K12 = NumV(Num(25, 1))
    /\ K13 = NumV(Int2Num(1))
    /\ WEIGHT_TIERS[Pos(K5)] = Num(25, 1)

-----------------------------------------------------------------------------
(* Properties of the products with an empty attribute *)

\* size, chips_pith, ec_level or plastic of the product p is ''
HasEmptyField(p) ==
    p.size = <<>> \/ p.chips_pith = <<>> \/ p.ec_level = <<>> \/ p.plastic = <<>>

\* C29: a product of a catalog whose size, chips_pith, ec_level or plastic is
\* '' is never shown in a result row or a description cell: the inputs give
\* its key only with one of them blank, and then the product match is made
\* but every result is blank.
C29_ProductWithEmptyFieldIsNeverReturned ==
    Built =>
        \A row \in ResultRows :
            \A i \in DOMAIN Sheet(Prefix(row)) :
                LET p == Sheet(Prefix(row))[i] IN
                HasEmptyField(p) =>
                    /\ K4 = p.key => SomeInputBlank
                    /\ Pos(MR(row)) = i =>
                          /\ ResultCells(row) = {Blank}
                          /\ DescriptionCell(row) = Blank
                    /\ ProductCode(row) # Txt(p.product_no)
                    /\ DescriptionCell(row) # Txt(p.description)

\* the only India product has no size; the inputs give its key with the size
\* blank and the destination selected: the product is matched and nothing is
\* shown
C29_Witness ==
    /\ Built
    /\ Len(in_products) = 1
    /\ in_products[1].size = <<>>
    /\ in_products[1].description = desc_5
    /\ B[4] = <<>>
    /\ \A r \in 5..10 : B[r] # <<>>
    /\ K4 = in_products[1].key
    /\ Pos(K7) = 1
    /\ ProductCode(17) = Blank
    /\ A21 = "Please fill in all input fields above."

-----------------------------------------------------------------------------
(* Properties of the weight behind the tonnage warning *)

\* C30: whenever the tonnage warning is displayed, the weight the quote uses
\* is 23 and the tier it resolves to is the 23 MT tier.
C30_WarningMeansDefaultWeight ==
    (Built /\ A13 = WarningText) =>
        /\ K12 = NumV(Num(23, 1))
        /\ Pos(K5) > 0
        /\ WEIGHT_TIERS[Pos(K5)] = Num(23, 1)

====
